---- MODULE Spec2Model ----
(***************************************************************************)
(* Authentication and session-security core of the SaaS backend:          *)
(* AuthService (login with lockout, refresh-token rotation, logout,       *)
(* password change), UsersService.deleteMyAccount and the token cleanup   *)
(* job, against the Credential Store (Prisma) and the Ephemeral Cache     *)
(* (Redis).  Every await on a store is one step of the calling request.   *)
(***************************************************************************)
EXTENDS Integers, FiniteSets, Sequences, TLC

\* ------------------------------------------------------------------ bounds
NumProcs == 2          \* concurrent requests in flight
MaxRows  == 3          \* refresh-token rows ever created
MaxTicks == 2          \* clock advances
MaxSeeds == 2          \* TOTP seeds ever generated
MaxBatches == 3        \* backup-code batches ever generated
MaxCoded == 2          \* batches generated where backup codes are submitted too
MaxResets == 2         \* password-reset tokens ever created
MaxTried == 2          \* backup codes of a batch that callers submit one after another
MaxRaced == 1          \* backup codes of a batch that callers submit concurrently

Procs     == 1..NumProcs
UserIds   == {"u1", "u2"}          \* a user's id doubles as its email
Passwords == {"pw1", "pw2"}

\* ------------------------------------------------------- program constants
LOCKOUT_THRESHOLD == 5
LOCKOUT_TTL       == 15 * 60
REFRESH_TTL       == 7 * 24 * 60 * 60    \* expiresAt.setDate(getDate() + 7)
ATTEMPTS_PREFIX   == "login_attempts:"
LOCKOUT_PREFIX    == "login_locked:"

BACKUP_CODE_COUNT == 10
RESET_TTL         == 60 * 60             \* Date.now() + 60 * 60 * 1000
TOTP_STEP         == 30

NULL == 0 - 1          \* a null timestamp / a missing TTL

VARIABLES
  now,            \* wall clock, in seconds
  ticks,          \* number of clock advances so far
  users,          \* users table: id -> row
  refreshTokens,  \* refresh_tokens table: set of rows
  nextId,         \* next primary key of refresh_tokens
  redis,          \* cache: key -> entry
  proc,           \* per request: operation, position, arguments, locals, result
  hist,           \* per email: history of the lockout (what the claims speak of)
  issued,         \* every refresh-token value ever stored
  revoked,        \* every refresh-token value whose row was ever marked revoked
  mfa,            \* users.two_factor_enabled, users.two_factor_secret: id -> columns
  backupCodes,    \* backup_codes table: set of rows
  nextSeed,       \* next value generateSecret() returns
  nextBatch,      \* next batch of values randomBytes(6) returns
  passwordResetTokens,  \* password_reset_tokens table: set of rows
  nextResetId,    \* next primary key / random value of password_reset_tokens
  mfaHist         \* per backup code: how often it authenticated, whether it was tried

\* the session and lockout state, the MFA state, the single-use tokens
sessionVars == <<users, refreshTokens, nextId, redis, hist, issued, revoked>>
mfaVars     == <<mfa, backupCodes, nextSeed, nextBatch, mfaHist>>
resetVars   == <<passwordResetTokens, nextResetId>>
otherTables == <<mfaVars, resetVars>>

vars == <<now, ticks, users, refreshTokens, nextId, redis, proc, hist, issued, revoked,
          mfa, backupCodes, nextSeed, nextBatch, passwordResetTokens, nextResetId,
          mfaHist>>

\* ------------------------------------------------------------ credential hasher
Hash(pw)        == "bcrypt$" \o pw
Compare(pw, h)  == h = Hash(pw)

\* ------------------------------------------------------------------ users
NoUser == [exists |-> FALSE, password |-> "", isActive |-> FALSE, deletedAt |-> NULL]

FindUser(u) == users[u]

\* ------------------------------------------------------------------ cache
Keys  == {<<pre, e>> : pre \in {ATTEMPTS_PREFIX, LOCKOUT_PREFIX}, e \in UserIds}
NoKey == [present |-> FALSE, val |-> 0, exp |-> NULL]

AttemptsKey(e) == <<ATTEMPTS_PREFIX, e>>
LockKey(e)     == <<LOCKOUT_PREFIX, e>>

JsonStringify(b) == IF b THEN "true" ELSE "false"
JsonParse(v)     == v = "true"

\* redis.get + JSON.parse as the caller's "if (value)": null for a missing key
CacheGet(r, k) == r[k].present /\ JsonParse(r[k].val)

\* redis.set(key, JSON.stringify(value), 'EX', ttl)
CacheSet(r, k, v, ttl) ==
  [r EXCEPT ![k] = [present |-> TRUE, val |-> JsonStringify(v), exp |-> now + ttl]]

\* redis.del(...keys)
CacheDel(r, ks) == [k \in Keys |-> IF k \in ks THEN NoKey ELSE r[k]]

\* redis.incr: a missing key counts from 0 and is created without a TTL
CacheIncrValue(r, k) == IF r[k].present THEN r[k].val + 1 ELSE 1
CacheIncr(r, k) ==
  [r EXCEPT ![k] = IF r[k].present
                     THEN [r[k] EXCEPT !.val = r[k].val + 1]
                     ELSE [present |-> TRUE, val |-> 1, exp |-> NULL]]

\* redis.expire: no effect on a missing key
CacheExpire(r, k, ttl) ==
  IF r[k].present THEN [r EXCEPT ![k].exp = now + ttl] ELSE r

\* redis.ttl: -2 for a missing key, -1 for a key without expiry
CacheTtl(r, k) ==
  IF ~r[k].present THEN 0 - 2
  ELSE IF r[k].exp = NULL THEN 0 - 1 ELSE r[k].exp - now

\* the store's own expiry: keys whose TTL has run out at time t are gone
Expire(r, t) ==
  [k \in Keys |-> IF r[k].present /\ r[k].exp # NULL /\ r[k].exp <= t
                    THEN NoKey ELSE r[k]]

\* -------------------------------------------------------------- requests
Idle == [pc |-> "idle"]
Done(op, res) == [pc |-> "done", op |-> op, result |-> res]

IsIdle(p) == proc[p].pc = "idle"
At(p, pc) == proc[p].pc = pc

\* ---------------------------------------------------------- refresh tokens
\* jwtService.signAsync(payload, {secret: refreshSecret, expiresIn: '7d'}):
\* the value is determined by the payload and the issue second
SignRefresh(u, t) == [sub |-> u, iat |-> t, exp |-> t + REFRESH_TTL]

\* a well-formed value that was never stored
Forged == [sub |-> "u1", iat |-> NULL, exp |-> NULL]

NoRow == [id |-> 0, token |-> Forged, userId |-> "", expiresAt |-> NULL, revokedAt |-> NULL]

\* refreshToken.findUnique({where: {token}})
FindToken(tok) ==
  IF \E r \in refreshTokens : r.token = tok
    THEN CHOOSE r \in refreshTokens : r.token = tok
    ELSE NoRow

\* AuthService.generateTokenPair: sign, then refreshToken.create; the unique
\* index on token rejects a value already on file
CanCreate(tok) == \A r \in refreshTokens : r.token # tok

NewRow(u, tok) ==
  [id |-> nextId, token |-> tok, userId |-> u,
   expiresAt |-> now + REFRESH_TTL, revokedAt |-> NULL]

\* the effect of generateTokenPair on the store; ok tells whether create succeeded
IssueOk(u) == nextId <= MaxRows /\ CanCreate(SignRefresh(u, now))

Issue(u) ==
  /\ nextId <= MaxRows
  /\ IF CanCreate(SignRefresh(u, now))
       THEN /\ refreshTokens' = refreshTokens \cup {NewRow(u, SignRefresh(u, now))}
            /\ nextId' = nextId + 1
            /\ issued' = issued \cup {SignRefresh(u, now)}
       ELSE UNCHANGED <<refreshTokens, nextId, issued>>

\* ------------------------------------------------------- secret cipher, TOTP
\* a string is the sequence of its parts between colons (split(':')); a part is
\* <<"raw", n>>, text without a colon, or <<"hex", bytes>>, the hex of a buffer
Raw(n)     == <<"raw", n>>
Hex(bytes) == <<"hex", bytes>>
\* a hex decoder that yields nothing usable
UnhexNothing(part) == <<"junk", 0>>

\* Buffer.from(part, 'hex'): the bytes; of text that is not hex, nothing usable
Unhex(part) == IF part[1] = "hex" THEN part[2] ELSE <<"junk", 0>>
\* stored.includes(':')
IncludesColon(str) == Len(str) > 1

\* a base32 seed as generateSecret() returns it: one part, no colon
Seed(n) == <<Raw(n)>>
\* twoFactorSecret: null
NoSecret == <<>>
NoMfa    == [enabled |-> FALSE, secret |-> NoSecret]

\* mfa.encryptionKey: toKeyBuffer gives null unless the value has 64 characters
NoEncryptionKey == "none"
\* the key of the deployment whose MFA calls are modelled
ENCRYPTION_KEY  == "k1"

\* AES-256-GCM: the ciphertext bytes and the tag of (key, iv, ciphertext)
GcmCipher(key, iv, text) == <<"ct", key, iv, text>>
GcmTag(key, iv, enc)     == <<"tag", key, iv, enc>>
\* decipher.update/final under (key, iv): the plaintext of bytes made under them
GcmOpen(key, iv, enc) ==
  IF enc[1] = "ct" /\ enc[2] = key /\ enc[3] = iv THEN enc[4] ELSE <<Raw(0)>>

Returned(str) == [threw |-> FALSE, value |-> str]
Threw         == [threw |-> TRUE, value |-> <<>>]

\* encrypt(text, key): "ivHex:authTagHex:ciphertextHex", iv = randomBytes(12)
Encrypt(text, key, iv) ==
  <<Hex(<<"iv", iv>>),
    Hex(GcmTag(key, <<"iv", iv>>, GcmCipher(key, <<"iv", iv>>, text))),
    Hex(GcmCipher(key, <<"iv", iv>>, text))>>

\* decrypt(ciphertext, key): throws unless three parts whose tag authenticates
Decrypt(ciphertext, key) ==
  IF Len(ciphertext) # 3 THEN Threw
  ELSE IF Unhex(ciphertext[2])
            # GcmTag(key, Unhex(ciphertext[1]), Unhex(ciphertext[3]))
    THEN Threw
    ELSE Returned(GcmOpen(key, Unhex(ciphertext[1]), Unhex(ciphertext[3])))

\* encryptSecret: if (!this.encryptionKey) return secret
EncryptSecret(encryptionKey, secret, iv) ==
  IF encryptionKey = NoEncryptionKey THEN secret ELSE Encrypt(secret, encryptionKey, iv)

\* decryptSecret: no key, or a stored value without a colon: returned as it is
DecryptSecret(encryptionKey, stored) ==
  IF encryptionKey = NoEncryptionKey THEN Returned(stored)
  ELSE IF ~IncludesColon(stored) THEN Returned(stored)
  ELSE Decrypt(stored, encryptionKey)

\* the code an authenticator holding seed number `seed` shows at time t
Totp(seed, t) == [kind |-> "totp", seed |-> seed, step |-> t \div TOTP_STEP]
\* verifySync({token, secret, strategy: 'totp'}).valid
VerifySync(token, secret) ==
  token.kind = "totp" /\ Seed(token.seed) = secret /\ token.step = now \div TOTP_STEP
\* verifySync on what decryptSecret gave; a throw of decryptSecret is no valid code
VerifyStored(token, stored) ==
  /\ ~DecryptSecret(ENCRYPTION_KEY, stored).threw
  /\ VerifySync(token, DecryptSecret(ENCRYPTION_KEY, stored).value)

\* ------------------------------------------------------------- backup codes
\* "XXXX-XXXX-XXXX" of the raw random value
Formatted(raw) == [kind |-> "backup", raw |-> raw, dashes |-> TRUE]
\* a code as a client may retype it: without the dashes
Undashed(raw) == [kind |-> "backup", raw |-> raw, dashes |-> FALSE]
\* code.replace(/-/g, '').toUpperCase()
NormaliseCode(code) == IF code.kind = "backup" THEN [code EXCEPT !.dashes = FALSE] ELSE code
\* sha256(userId + ":" + normalisedCode)
HashBackupCode(userId, normalisedCode) == <<userId, normalisedCode>>

Indexes == 1..BACKUP_CODE_COUNT
\* generateBackupCodes(userId): the plain codes and their hashes of batch b
Plain(b) == {Formatted(<<b, i>>) : i \in Indexes}
Hashes(userId, b) == {HashBackupCode(userId, NormaliseCode(c)) : c \in Plain(b)}
\* createMany({data: hashes.map((codeHash) => ({userId, codeHash}))})
BatchRows(userId, b) ==
  {[id |-> <<b, i>>, userId |-> userId,
    codeHash |-> HashBackupCode(userId, NormaliseCode(Formatted(<<b, i>>))),
    usedAt |-> NULL] : i \in Indexes}
CodesOf(userId) == {r \in backupCodes : r.userId = userId}

\* deleteMany that finds no row
DeleteNone(rows, userId) == {}

\* backupCode.deleteMany({where: {userId}}) inside a transaction: the rows the
\* statement finds are the ones committed when it starts (READ COMMITTED, the
\* isolation $transaction([...]) runs under); they go when the transaction commits
DeleteMany(rows, userId) == {r.id : r \in {x \in rows : x.userId = userId}}

\* COMMIT: the rows deleted by the transaction go, the rows it created appear
CommitRows(rows, dels, created) == {r \in rows : r.id \notin dels} \cup created

RawCodes == (1..MaxBatches) \X Indexes
NoMfaHist == [uses  |-> [c \in RawCodes |-> 0],
              tried |-> {}]

\* ----------------------------------------------------------------- history
\* fails:     failed logins recorded since the counter or the lock last went away
\* sinceOk:   failed logins recorded since the last successful login
\* cleared:   the last successful login cleared a counter that was counting
\* staleLock: the lock on file was set by a failure recorded before the last
\*            successful login
NoHist == [fails |-> 0, sinceOk |-> 0, cleared |-> FALSE, staleLock |-> FALSE]

Min(a, b) == IF a < b THEN a ELSE b

\* a failed login of e has incremented the counter and has not returned yet
FailInFlight(q, e) ==
  /\ proc[q].pc \in {"login_expire", "login_setlock", "login_del"}
  /\ proc[q].email = e

\* ------------------------------------------------------------------- Init
Init ==
  /\ now = 0
  /\ ticks = 0
  /\ users = [u \in UserIds |->
               IF u = "u1"
                 THEN [exists |-> TRUE, password |-> Hash("pw1"),
                       isActive |-> TRUE, deletedAt |-> NULL]
                 ELSE NoUser]
  /\ refreshTokens = {}
  /\ nextId = 1
  /\ redis = [k \in Keys |-> NoKey]
  /\ proc = [p \in Procs |-> Idle]
  /\ hist = [e \in UserIds |-> NoHist]
  /\ issued = {}
  /\ revoked = {}
  /\ mfa = [u \in UserIds |-> NoMfa]
  /\ backupCodes = {}
  /\ nextSeed = 1
  /\ nextBatch = 1
  /\ passwordResetTokens = {}
  /\ nextResetId = 1
  /\ mfaHist = NoMfaHist

\* ------------------------------------------------------ AuthService.login
LoginDone(p, res, made) ==
  [pc |-> "done", op |-> "login", email |-> proc[p].email,
   password |-> proc[p].password, result |-> res,
   isLocked |-> proc[p].isLocked, lockHeld |-> proc[p].lockHeld,
   readUser |-> proc[p].readUser, created |-> made]

\* the lock check skipped: the user is read whatever the flag says
AfterLockCheckSkipped(isLocked) == "login_find"

\* if (isLocked) throw ...; otherwise go on to read the user
AfterLockCheck(isLocked) == IF isLocked THEN "login_locked" ELSE "login_find"

\* const isLocked = await this.cache.get<boolean>(lockKey)
LoginCheckLock(p, e, pw) ==
  /\ IsIdle(p)
  /\ proc' = [proc EXCEPT ![p] =
       [pc |-> AfterLockCheck(CacheGet(redis, LockKey(e))),
        op |-> "login", email |-> e, password |-> pw,
        isLocked |-> CacheGet(redis, LockKey(e)),
        lockHeld |-> redis[LockKey(e)].present,
        readUser |-> FALSE, user |-> NoUser, attempts |-> 0, stale |-> FALSE]]
  /\ UNCHANGED <<now, ticks, users, refreshTokens, nextId, redis, hist, issued, revoked>>
  /\ UNCHANGED otherTables

\* a refused login that writes the lock flag again, with a new expiry
LoginLockedExtending(p) ==
  /\ At(p, "login_locked")
  /\ redis' = CacheSet(redis, LockKey(proc[p].email), TRUE, LOCKOUT_TTL)
  /\ proc' = [proc EXCEPT ![p] = LoginDone(p, "AccountLocked", FALSE)]
  /\ UNCHANGED <<now, ticks, users, refreshTokens, nextId, hist, issued, revoked>>
  /\ UNCHANGED otherTables

\* if (isLocked) { await this.cache.ttl(lockKey); throw Unauthorized(locked) }
LoginLocked(p) ==
  /\ At(p, "login_locked")
  /\ proc' = [proc EXCEPT ![p] = LoginDone(p, "AccountLocked", FALSE)]
  /\ UNCHANGED <<now, ticks, users, refreshTokens, nextId, redis, hist, issued, revoked>>
  /\ UNCHANGED otherTables

\* user.findUnique({where: {email}}) and bcrypt.compare(dto.password, user.password)
LoginFindUser(p) ==
  /\ At(p, "login_find")
  /\ proc' = [proc EXCEPT ![p] =
       [proc[p] EXCEPT
          !.pc = IF ~FindUser(proc[p].email).exists
                    \/ ~Compare(proc[p].password, FindUser(proc[p].email).password)
                   THEN "login_incr" ELSE "login_clear",
          !.user = FindUser(proc[p].email),
          !.readUser = TRUE]]
  /\ UNCHANGED <<now, ticks, users, refreshTokens, nextId, redis, hist, issued, revoked>>
  /\ UNCHANGED otherTables

\* an unknown email told apart from a wrong password
AfterIncrUnknown(p, attempts) ==
  IF ~proc[p].user.exists
    THEN LoginDone(p, "UserNotFound", FALSE)
    ELSE LoginDone(p, "InvalidCredentials", FALSE)

\* the lock set only above the threshold, not on reaching it
AfterIncrAboveThreshold(p, attempts) ==
  IF attempts = 1 THEN [proc[p] EXCEPT !.pc = "login_expire", !.attempts = attempts]
  ELSE IF attempts > LOCKOUT_THRESHOLD
    THEN [proc[p] EXCEPT !.pc = "login_setlock", !.attempts = attempts]
    ELSE LoginDone(p, "InvalidCredentials", FALSE)

\* what follows the counter's increment: expire on 1, lock on >= threshold, else throw
AfterIncr(p, attempts) ==
  IF attempts = 1 THEN [proc[p] EXCEPT !.pc = "login_expire", !.attempts = attempts]
  ELSE IF attempts >= LOCKOUT_THRESHOLD
    THEN [proc[p] EXCEPT !.pc = "login_setlock", !.attempts = attempts]
    ELSE LoginDone(p, "InvalidCredentials", FALSE)

\* const attempts = await this.cache.incr(attemptsKey)
LoginIncr(p) ==
  /\ At(p, "login_incr")
  /\ redis' = CacheIncr(redis, AttemptsKey(proc[p].email))
  /\ proc' = [proc EXCEPT ![p] =
                AfterIncr(p, CacheIncrValue(redis, AttemptsKey(proc[p].email)))]
  /\ hist' = [hist EXCEPT
       ![proc[p].email].fails = Min(@ + 1, LOCKOUT_THRESHOLD),
       ![proc[p].email].sinceOk = Min(@ + 1, LOCKOUT_THRESHOLD)]
  /\ UNCHANGED <<now, ticks, users, refreshTokens, nextId, issued, revoked>>
  /\ UNCHANGED otherTables

\* if (attempts === 1) await this.cache.expire(attemptsKey, LOCKOUT_TTL)
LoginExpire(p) ==
  /\ At(p, "login_expire")
  /\ redis' = CacheExpire(redis, AttemptsKey(proc[p].email), LOCKOUT_TTL)
  /\ proc' = [proc EXCEPT ![p] =
       IF proc[p].attempts >= LOCKOUT_THRESHOLD
         THEN [proc[p] EXCEPT !.pc = "login_setlock"]
         ELSE LoginDone(p, "InvalidCredentials", FALSE)]
  /\ UNCHANGED <<now, ticks, users, refreshTokens, nextId, hist, issued, revoked>>
  /\ UNCHANGED otherTables

\* if (attempts >= LOCKOUT_THRESHOLD) await this.cache.set(lockKey, true, LOCKOUT_TTL)
LoginSetLock(p) ==
  /\ At(p, "login_setlock")
  /\ redis' = CacheSet(redis, LockKey(proc[p].email), TRUE, LOCKOUT_TTL)
  /\ proc' = [proc EXCEPT ![p].pc = "login_del"]
  /\ hist' = [hist EXCEPT ![proc[p].email].staleLock = proc[p].stale]
  /\ UNCHANGED <<now, ticks, users, refreshTokens, nextId, issued, revoked>>
  /\ UNCHANGED otherTables

\* await this.cache.del(attemptsKey); throw Unauthorized(invalid credentials)
LoginDelAttempts(p) ==
  /\ At(p, "login_del")
  /\ redis' = CacheDel(redis, {AttemptsKey(proc[p].email)})
  /\ proc' = [proc EXCEPT ![p] = LoginDone(p, "InvalidCredentials", FALSE)]
  /\ UNCHANGED <<now, ticks, users, refreshTokens, nextId, hist, issued, revoked>>
  /\ UNCHANGED otherTables

\* a successful login that leaves the counter in place
ClearedKeysLockOnly(e) == {LockKey(e)}

\* the keys a successful login deletes
ClearedKeys(e) == {AttemptsKey(e), LockKey(e)}

\* await this.cache.del(attemptsKey, lockKey); then the isActive/deletedAt checks
LoginClear(p) ==
  /\ At(p, "login_clear")
  /\ redis' = CacheDel(redis, ClearedKeys(proc[p].email))
  /\ proc' = [q \in Procs |->
       IF q = p
         THEN IF ~proc[p].user.isActive \/ proc[p].user.deletedAt # NULL
                THEN LoginDone(p, "Inactive", FALSE)
                ELSE [proc[p] EXCEPT !.pc = "login_issue"]
         ELSE IF FailInFlight(q, proc[p].email)
                THEN [proc[q] EXCEPT !.stale = TRUE]
                ELSE proc[q]]
  /\ hist' = [hist EXCEPT ![proc[p].email] =
       [NoHist EXCEPT !.cleared = redis[AttemptsKey(proc[p].email)].present]]
  /\ UNCHANGED <<now, ticks, users, refreshTokens, nextId, issued, revoked>>
  /\ UNCHANGED otherTables

\* const tokens = await this.generateTokenPair(user, user.company)
LoginIssue(p) ==
  /\ At(p, "login_issue")
  /\ Issue(proc[p].email)
  /\ proc' = [proc EXCEPT ![p] =
       IF IssueOk(proc[p].email)
         THEN LoginDone(p, "ok", TRUE)
         ELSE LoginDone(p, "StoreError", FALSE)]
  /\ UNCHANGED <<now, ticks, users, redis, hist, revoked>>
  /\ UNCHANGED otherTables

\* the caller has its answer; the request slot is free again
Return(p) ==
  /\ At(p, "done")
  /\ proc' = [proc EXCEPT ![p] = Idle]
  /\ UNCHANGED <<now, ticks, users, refreshTokens, nextId, redis, hist, issued, revoked>>
  /\ UNCHANGED otherTables

\* ------------------------------------------------------------------ clock
\* time passes; the cache drops the keys whose TTL has run out
AdvanceTo(t) ==
  /\ ticks < MaxTicks
  /\ now' = t
  /\ ticks' = ticks + 1
  /\ redis' = Expire(redis, t)
  /\ hist' = [e \in UserIds |->
       IF Expire(redis, t)[AttemptsKey(e)] # redis[AttemptsKey(e)]
          \/ Expire(redis, t)[LockKey(e)] # redis[LockKey(e)]
         THEN [hist[e] EXCEPT !.fails = 0,
                 !.staleLock = @ /\ Expire(redis, t)[LockKey(e)].present]
         ELSE hist[e]]
  /\ UNCHANGED <<users, refreshTokens, nextId, proc, issued, revoked>>
  /\ UNCHANGED otherTables

\* no request is between two of its store calls
Quiescent == \A p \in Procs : proc[p].pc \in {"idle", "done"}

\* a request takes seconds: a second can pass at any point of it, while a whole
\* lockout window or refresh-token lifetime passes between requests only
TickSecond  == AdvanceTo(now + 1)
TickLockout == Quiescent /\ AdvanceTo(now + LOCKOUT_TTL)
TickRefresh == Quiescent /\ AdvanceTo(now + REFRESH_TTL)

\* --------------------------------------------- AuthService.refreshTokens
\* what the caller of refreshTokens gets, with what the call did on the way
RefreshDone(rec, res, made) ==
  [pc |-> "done", op |-> "refresh", userId |-> rec.userId,
   token |-> rec.token, result |-> res,
   found |-> rec.storedToken.id # 0,
   owner |-> rec.storedToken.userId,
   sawLive |-> rec.sawLive, wasRevoked |-> rec.wasRevoked,
   revokedOld |-> rec.revokedOld, created |-> made, overtaken |-> rec.overtaken,
   newToken |-> IF made THEN SignRefresh(rec.storedToken.userId, now) ELSE Forged]

\* the ownership check dropped: any caller may rotate any stored token
AfterFindAnyOwner(u, row) ==
  IF row.id = 0 THEN "InvalidToken"
  ELSE IF row.revokedAt # NULL \/ row.expiresAt < now THEN "refresh_revokeall"
  ELSE "refresh_revoke"

\* the branch taken after findUnique
AfterFind(u, row) ==
  IF row.id = 0 \/ row.userId # u THEN "InvalidToken"
  ELSE IF row.revokedAt # NULL \/ row.expiresAt < now THEN "refresh_revokeall"
  ELSE "refresh_revoke"

RefreshStart(u, tok) ==
  [pc |-> AfterFind(u, FindToken(tok)), op |-> "refresh", userId |-> u, token |-> tok,
   storedToken |-> FindToken(tok),
   sawLive |-> AfterFind(u, FindToken(tok)) = "refresh_revoke",
   wasRevoked |-> tok \in revoked, revokedOld |-> FALSE, overtaken |-> FALSE]

\* the requests as a password change of u by p leaves them: a refresh of u that
\* has read its token and not yet returned is marked as overtaken by the change
Overtake(p, u) ==
  [q \in Procs |->
     IF q # p /\ proc[q].pc \in {"refresh_revoke", "refresh_issue"} /\ proc[q].userId = u
       THEN [proc[q] EXCEPT !.overtaken = TRUE]
       ELSE proc[q]]

\* const storedToken = await this.prisma.refreshToken.findUnique({where: {token}});
\* if (!storedToken || storedToken.userId !== userId) throw Unauthorized(invalid)
RefreshFind(p, u, tok) ==
  /\ IsIdle(p)
  /\ proc' = [proc EXCEPT ![p] =
       IF AfterFind(u, FindToken(tok)) = "InvalidToken"
         THEN RefreshDone(RefreshStart(u, tok), "InvalidToken", FALSE)
         ELSE RefreshStart(u, tok)]
  /\ UNCHANGED <<now, ticks, users, refreshTokens, nextId, redis, hist, issued, revoked>>
  /\ UNCHANGED otherTables

OwnedBy(u) == {r \in refreshTokens : r.userId = u}

\* updateMany({where: {userId}, data: {revokedAt: new Date()}}); throw reuse detected
RefreshRevokeAll(p) ==
  /\ At(p, "refresh_revokeall")
  /\ refreshTokens' = {IF r.userId = proc[p].userId
                         THEN [r EXCEPT !.revokedAt = now] ELSE r : r \in refreshTokens}
  /\ revoked' = revoked \cup {r.token : r \in OwnedBy(proc[p].userId)}
  /\ proc' = [proc EXCEPT ![p] = RefreshDone(proc[p], "ReplayDetected", FALSE)]
  /\ UNCHANGED <<now, ticks, users, nextId, redis, hist, issued>>
  /\ UNCHANGED otherTables

\* update({where: {id: storedToken.id}, data: {revokedAt: new Date()}});
\* update throws when the row is gone
RefreshRevoke(p) ==
  /\ At(p, "refresh_revoke")
  /\ IF \E r \in refreshTokens : r.id = proc[p].storedToken.id
       THEN /\ refreshTokens' = {IF r.id = proc[p].storedToken.id
                                   THEN [r EXCEPT !.revokedAt = now] ELSE r
                                 : r \in refreshTokens}
            /\ revoked' = revoked \cup {proc[p].token}
            /\ proc' = [proc EXCEPT ![p].pc = "refresh_issue", ![p].revokedOld = TRUE]
       ELSE /\ UNCHANGED <<refreshTokens, revoked>>
            /\ proc' = [proc EXCEPT ![p] = RefreshDone(proc[p], "StoreError", FALSE)]
  /\ UNCHANGED <<now, ticks, users, nextId, redis, hist, issued>>
  /\ UNCHANGED otherTables

\* return this.generateTokenPair(storedToken.user, storedToken.user.company)
RefreshIssue(p) ==
  /\ At(p, "refresh_issue")
  /\ Issue(proc[p].storedToken.userId)
  /\ proc' = [proc EXCEPT ![p] =
       IF IssueOk(proc[p].storedToken.userId)
         THEN RefreshDone(proc[p], "ok", TRUE)
         ELSE RefreshDone(proc[p], "StoreError", FALSE)]
  /\ UNCHANGED <<now, ticks, users, redis, hist, revoked>>
  /\ UNCHANGED otherTables

\* ------------------------------------------ AuthController.refresh
\* JwtRefreshStrategy: jwt.verify(body.refreshToken, jwt.refreshSecret) with
\* ignoreExpiration: false; a token is expired from the second of its exp claim on
RefreshVerify(tok) == tok.iat # NULL /\ now < tok.exp

\* @UseGuards(JwtRefreshGuard) refresh(user): the guard answers 401 itself, or the
\* handler calls authService.refreshTokens(user.sub, user.refreshToken)
RefreshRequest(p, tok) ==
  IF RefreshVerify(tok)
    THEN RefreshFind(p, tok.sub, tok)
    ELSE /\ IsIdle(p)
         /\ proc' = [proc EXCEPT ![p] =
              RefreshDone(RefreshStart(tok.sub, tok), "Unauthorized", FALSE)]
         /\ UNCHANGED <<now, ticks, users, refreshTokens, nextId, redis, hist,
                        issued, revoked>>
         /\ UNCHANGED otherTables

\* --------------------------------------------------- AuthService.logout
\* the userId filter dropped: updateMany({where: {token: refreshToken}, ...})
LogoutAnyOwner(p, u, tok) ==
  /\ IsIdle(p)
  /\ refreshTokens' = {IF r.token = tok
                         THEN [r EXCEPT !.revokedAt = now] ELSE r : r \in refreshTokens}
  /\ revoked' = revoked \cup {r.token : r \in {x \in refreshTokens : x.token = tok}}
  /\ proc' = [proc EXCEPT ![p] =
       [pc |-> "done", op |-> "logout", userId |-> u, token |-> tok, result |-> "ok",
        wasRevoked |-> \E r \in OwnedBy(u) : r.token = tok /\ r.revokedAt # NULL]]
  /\ UNCHANGED <<now, ticks, users, nextId, redis, hist, issued>>
  /\ UNCHANGED otherTables

\* updateMany({where: {userId, token: refreshToken}, data: {revokedAt: new Date()}})
Logout(p, u, tok) ==
  /\ IsIdle(p)
  /\ refreshTokens' = {IF r.userId = u /\ r.token = tok
                         THEN [r EXCEPT !.revokedAt = now] ELSE r : r \in refreshTokens}
  /\ revoked' = revoked \cup {r.token : r \in {x \in OwnedBy(u) : x.token = tok}}
  /\ proc' = [proc EXCEPT ![p] =
       [pc |-> "done", op |-> "logout", userId |-> u, token |-> tok, result |-> "ok",
        wasRevoked |-> \E r \in OwnedBy(u) : r.token = tok /\ r.revokedAt # NULL]]
  /\ UNCHANGED <<now, ticks, users, nextId, redis, hist, issued>>
  /\ UNCHANGED otherTables

\* ------------------------------------------- AuthService.changePassword
\* the call's answer, with what it was asked
ChangeDone(u, cur, new, res) ==
  [pc |-> "done", op |-> "changePassword", result |-> res,
   userId |-> u, current |-> cur, new |-> new]

\* bcrypt.compare that accepts any current password
CompareAny(pw, h) == TRUE

\* const valid = await bcrypt.compare(dto.currentPassword, user.password)
CompareCurrent(pw, h) == Compare(pw, h)

ChangePassword(p, u, cur, new) ==
  /\ IsIdle(p)
  /\ IF ~FindUser(u).exists \/ FindUser(u).deletedAt # NULL
       THEN /\ proc' = [proc EXCEPT ![p] = ChangeDone(u, cur, new, "NotFound")]
            /\ UNCHANGED <<users, refreshTokens, revoked>>
       ELSE IF ~CompareCurrent(cur, FindUser(u).password)
         THEN /\ proc' = [proc EXCEPT ![p] = ChangeDone(u, cur, new, "Unauthorized")]
              /\ UNCHANGED <<users, refreshTokens, revoked>>
         ELSE /\ users' = [users EXCEPT ![u].password = Hash(new)]
              /\ refreshTokens' = {IF r.userId = u
                                     THEN [r EXCEPT !.revokedAt = now] ELSE r
                                   : r \in refreshTokens}
              /\ revoked' = revoked \cup {r.token : r \in OwnedBy(u)}
              /\ proc' = [Overtake(p, u) EXCEPT ![p] = ChangeDone(u, cur, new, "ok")]
  /\ UNCHANGED <<now, ticks, nextId, redis, hist, issued>>
  /\ UNCHANGED otherTables

\* ------------------------------------------ UsersService.deleteMyAccount
DeleteMyAccount(p, u, pw) ==
  /\ IsIdle(p)
  /\ IF ~FindUser(u).exists \/ FindUser(u).deletedAt # NULL
       THEN /\ proc' = [proc EXCEPT ![p] = Done("deleteMyAccount", "NotFound")]
            /\ UNCHANGED <<users, refreshTokens, revoked>>
       ELSE IF ~Compare(pw, FindUser(u).password)
         THEN /\ proc' = [proc EXCEPT ![p] = Done("deleteMyAccount", "Unauthorized")]
              /\ UNCHANGED <<users, refreshTokens, revoked>>
         ELSE /\ users' = [users EXCEPT ![u].deletedAt = now, ![u].isActive = FALSE]
              /\ refreshTokens' = {IF r.userId = u
                                     THEN [r EXCEPT !.revokedAt = now] ELSE r
                                   : r \in refreshTokens}
              /\ revoked' = revoked \cup {r.token : r \in OwnedBy(u)}
              /\ proc' = [proc EXCEPT ![p] = Done("deleteMyAccount", "ok")]
  /\ UNCHANGED <<now, ticks, nextId, redis, hist, issued>>
  /\ UNCHANGED otherTables

\* ------------------------------------------------------ UsersService.remove
\* an administrator (requesterId) removes the user id of the same company:
\* findUserOrThrow(id, companyId), then user.update {deletedAt, isActive: false}
Remove(p, id, requesterId) ==
  /\ IsIdle(p)
  /\ IF id = requesterId
       THEN /\ proc' = [proc EXCEPT ![p] = Done("remove", "Forbidden")]
            /\ UNCHANGED users
       ELSE IF ~FindUser(id).exists \/ FindUser(id).deletedAt # NULL
         THEN /\ proc' = [proc EXCEPT ![p] = Done("remove", "NotFound")]
              /\ UNCHANGED users
         ELSE /\ users' = [users EXCEPT ![id].deletedAt = now, ![id].isActive = FALSE]
              /\ proc' = [proc EXCEPT ![p] = Done("remove", "ok")]
  /\ UNCHANGED <<now, ticks, refreshTokens, nextId, redis, hist, issued, revoked>>
  /\ UNCHANGED otherTables

\* ------------------------------------------------- AuthService.register
Register(p, e, pw) ==
  /\ IsIdle(p)
  /\ IF FindUser(e).exists
       THEN /\ proc' = [proc EXCEPT ![p] = Done("register", "Conflict")]
            /\ UNCHANGED <<users, refreshTokens, nextId, issued>>
       ELSE /\ users' = [users EXCEPT ![e] =
                 [exists |-> TRUE, password |-> Hash(pw),
                  isActive |-> TRUE, deletedAt |-> NULL]]
            /\ Issue(e)
            /\ proc' = [proc EXCEPT ![p] =
                 Done("register", IF IssueOk(e) THEN "ok" ELSE "StoreError")]
  /\ UNCHANGED <<now, ticks, redis, hist, revoked>>
  /\ UNCHANGED otherTables

\* ------------------------------- TokenCleanupTask.cleanupExpiredTokens
\* deleteMany({where: {OR: [{expiresAt: {lt: now}}, {revokedAt: {not: null}}]}})
\* and the same on passwordResetToken with usedAt
CleanupExpiredTokens ==
  /\ refreshTokens' = {r \in refreshTokens : ~(r.expiresAt < now \/ r.revokedAt # NULL)}
  /\ passwordResetTokens' =
       {r \in passwordResetTokens : ~(r.expiresAt < now \/ r.usedAt # NULL)}
  /\ <<refreshTokens', passwordResetTokens'>> # <<refreshTokens, passwordResetTokens>>
  /\ UNCHANGED <<now, ticks, users, nextId, redis, proc, hist, issued, revoked>>
  /\ UNCHANGED <<mfaVars, nextResetId>>

\* =================================================================== guards
\* a bearer token: the key that signed it and the claims of its payload
ACCESS_SECRET  == "jwt.accessSecret"
REFRESH_SECRET == "jwt.refreshSecret"
SigningKeys    == {ACCESS_SECRET, REFRESH_SECRET, "forged"}
Expiries       == {1, MaxTicks + 1}
Bearers ==
  [key : SigningKeys, type : {"mfa", ""}, sub : {"u1", ""},
   companyId : {"c1", ""}, exp : Expiries]

\* jwt.verify(token, secret) with ignoreExpiration: false
JwtVerify(token, secret) == token.key = secret /\ now < token.exp

\* JwtStrategy.validate without the check of the type claim
ValidateAnyType(payload) ==
  IF payload.sub = "" \/ payload.companyId = "" THEN "Unauthorized" ELSE "ok"

\* JwtStrategy.validate(payload)
JwtStrategyValidate(payload) ==
  IF payload.type = "mfa" THEN "Unauthorized"
  ELSE IF payload.sub = "" \/ payload.companyId = "" THEN "Unauthorized"
  ELSE "ok"

\* JwtAuthGuard on an endpoint that is not @Public(): passport-jwt, then validate
JwtAuthGuard(token) ==
  IF ~JwtVerify(token, ACCESS_SECRET) THEN "Unauthorized" ELSE JwtStrategyValidate(token)

\* JwtRefreshStrategy: passport-jwt with the refresh secret; validate returns the payload
JwtRefreshGuard(token) ==
  IF ~JwtVerify(token, REFRESH_SECRET) THEN "Unauthorized" ELSE "ok"

\* MfaTokenGuard.canActivate
MfaTokenGuard(token) ==
  IF ~JwtVerify(token, ACCESS_SECRET) THEN "Unauthorized"
  ELSE IF token.type # "mfa" THEN "Unauthorized"
  ELSE "ok"

Endpoints == {"protected", "refresh", "challenge"}

\* a request arrives with its token
Request(p, token, endpoint) ==
  /\ IsIdle(p)
  /\ proc' = [proc EXCEPT ![p] =
       [pc |-> "guard", op |-> "request", token |-> token,
        endpoint |-> endpoint, result |-> ""]]
  /\ UNCHANGED <<now, ticks, sessionVars, mfaVars, resetVars>>

\* the endpoint's guard answers
Guard(p) ==
  /\ At(p, "guard")
  /\ proc' = [proc EXCEPT ![p] =
       [proc[p] EXCEPT
          !.pc = "done",
          !.result = IF proc[p].endpoint = "protected" THEN JwtAuthGuard(proc[p].token)
                     ELSE IF proc[p].endpoint = "refresh"
                       THEN JwtRefreshGuard(proc[p].token)
                       ELSE MfaTokenGuard(proc[p].token)]]
  /\ UNCHANGED <<now, ticks, sessionVars, mfaVars, resetVars>>

\* ============================================================ stored seeds
\* the values a seed column can be made to hold, and the calls that write and
\* read it under a deployment's key configuration
CipherKeys  == {"k1", "k2"}
KeyConfigs  == CipherKeys \cup {NoEncryptionKey}
IVs         == 1..2
\* texts to encrypt: two seeds, and a text that contains a colon
CipherTexts == {Seed(1), Seed(2), <<Raw(1), Raw(2)>>}

\* what encrypt can return under a key
EncryptOutputs(key) == {Encrypt(text, key, iv) : text \in CipherTexts, iv \in IVs}
AllOutputs == UNION {EncryptOutputs(key) : key \in CipherKeys}

\* an output with one part replaced (by junk hex, by text, or by the same part
\* of another output), with a part removed, or with a part added
Altered(c) ==
  UNION {{[c EXCEPT ![i] = part] :
            part \in {Hex(<<"junk", 1>>), Raw(1)} \cup {d[i] : d \in AllOutputs}}
         : i \in 1..3}
    \cup {<<c[1], c[2]>>, <<c[2], c[3]>>, c \o <<Raw(1)>>}

\* every value the column may be found to hold
StoredValues == CipherTexts \cup AllOutputs \cup UNION {Altered(c) : c \in AllOutputs}

\* encrypt (level "cipher") or encryptSecret (level "service") of a text
EncryptCall(p, level, key, text, iv) ==
  /\ IsIdle(p)
  /\ level = "cipher" => key # NoEncryptionKey
  /\ proc' = [proc EXCEPT ![p] =
       [pc |-> "stored", op |-> "cipher", level |-> level, key |-> key,
        text |-> text, altered |-> FALSE,
        stored |-> IF level = "cipher" THEN Encrypt(text, key, iv)
                                       ELSE EncryptSecret(key, text, iv),
        result |-> Threw]]
  /\ UNCHANGED <<now, ticks, sessionVars, mfaVars, resetVars>>

\* the stored value is overwritten from outside the service
AlterStored(p, value) ==
  /\ At(p, "stored")
  /\ value # proc[p].stored
  /\ proc' = [proc EXCEPT ![p] = [proc[p] EXCEPT !.stored = value, !.altered = TRUE]]
  /\ UNCHANGED <<now, ticks, sessionVars, mfaVars, resetVars>>

\* decrypt or decryptSecret of what is stored
DecryptCall(p) ==
  /\ At(p, "stored")
  /\ proc' = [proc EXCEPT ![p] =
       [proc[p] EXCEPT
          !.pc = "done",
          !.result = IF proc[p].level = "cipher"
                       THEN Decrypt(proc[p].stored, proc[p].key)
                       ELSE DecryptSecret(proc[p].key, proc[p].stored)]]
  /\ UNCHANGED <<now, ticks, sessionVars, mfaVars, resetVars>>

\* ================================================== TwoFactorService (MFA)
\* a request of the MFA manager: arguments, what it read, what verifyCode said
MfaStart(op, u, code, pc) ==
  [pc |-> pc, op |-> op, userId |-> u, code |-> code, result |-> "",
   valid |-> FALSE, viaBackup |-> FALSE, record |-> <<0, 0>>, batch |-> 0,
   seed |-> 0, created |-> FALSE, dels |-> {}, after |-> {},
   firstTry |-> code.kind = "backup" /\ <<u, code.raw>> \notin mfaHist.tried]
MfaDone(rec, res) == [rec EXCEPT !.pc = "done", !.result = res]

IsMfa(p, op) == proc[p].pc # "idle" /\ proc[p].op = op
MfaReturned(p, op) == proc[p].pc = "done" /\ proc[p].op = op

\* a transaction that has run its user.update holds the user's row until it
\* commits: another update of that row waits
UserRowLocked(u) ==
  \E q \in Procs :
    /\ proc[q].pc \in {"enable_delete", "enable_commit", "disable_delete", "disable_commit"}
    /\ proc[q].userId = u

\* a transaction that has run its deleteMany holds the rows it deletes
RowLocked(id) ==
  \E q \in Procs :
    /\ proc[q].pc \in {"enable_commit", "disable_commit", "regen_commit"}
    /\ id \in proc[q].dels

\* the transactions in flight that hold rows among ids
RowHolders(ids) ==
  {q \in Procs : /\ proc[q].pc \in {"enable_commit", "disable_commit", "regen_commit"}
                 /\ proc[q].dels \cap ids # {}}

\* the deleteMany of p found rows that an earlier transaction holds: it waits for
\* that transaction to commit, and then finds the rows gone
RowWait(p) ==
  \E q \in proc[p].after :
    /\ proc[q].pc \in {"enable_commit", "disable_commit", "regen_commit"}
    /\ proc[q].dels \cap proc[p].dels # {}

\* ------------------------------------------- TwoFactorService.generateSetup
\* user.findUnique, the two checks
SetupFind(p, u) ==
  /\ IsIdle(p)
  /\ proc' = [proc EXCEPT ![p] =
       IF ~users[u].exists THEN MfaDone(MfaStart("setup", u, Totp(0, 0), ""), "UserNotFound")
       ELSE IF mfa[u].enabled
         THEN MfaDone(MfaStart("setup", u, Totp(0, 0), ""), "AlreadyEnabled")
         ELSE MfaStart("setup", u, Totp(0, 0), "setup_update")]
  /\ UNCHANGED <<now, ticks, sessionVars, mfaVars, resetVars>>

\* generateSecret(), user.update({data: {twoFactorSecret: encryptSecret(secret)}})
SetupUpdate(p) ==
  /\ At(p, "setup_update")
  /\ nextSeed <= MaxSeeds
  /\ ~UserRowLocked(proc[p].userId)
  /\ mfa' = [mfa EXCEPT ![proc[p].userId].secret = EncryptSecret(ENCRYPTION_KEY, Seed(nextSeed), nextSeed)]
  /\ nextSeed' = nextSeed + 1
  /\ proc' = [proc EXCEPT ![p] = MfaDone([proc[p] EXCEPT !.seed = nextSeed], "ok")]
  /\ UNCHANGED <<now, ticks, sessionVars, backupCodes, nextBatch, mfaHist, resetVars>>

\* ----------------------------------------- TwoFactorService.verifyAndEnable
\* the checks after findUnique without the TOTP check
EnableCheckNoCode(user, code) ==
  IF user.secret = NoSecret THEN "NotPending"
  ELSE IF user.enabled THEN "AlreadyEnabled"
  ELSE "ok"

\* the checks after findUnique, with the TOTP check of the submitted code
EnableCheck(user, code) ==
  IF user.secret = NoSecret THEN "NotPending"
  ELSE IF user.enabled THEN "AlreadyEnabled"
  ELSE IF ~VerifyStored(code, user.secret) THEN "InvalidCode"
  ELSE "ok"

EnableFind(p, u, code) ==
  /\ IsIdle(p)
  /\ proc' = [proc EXCEPT ![p] =
       IF EnableCheck(mfa[u], code) = "ok"
         THEN MfaStart("enable", u, code, "enable_update")
         ELSE MfaDone(MfaStart("enable", u, code, ""), EnableCheck(mfa[u], code))]
  /\ UNCHANGED <<now, ticks, sessionVars, mfaVars, resetVars>>

\* generateBackupCodes, then $transaction([user.update, deleteMany, createMany]):
\* user.update({data: {twoFactorEnabled: true}}) takes the user's row
EnableUpdate(p) ==
  /\ At(p, "enable_update")
  /\ ~UserRowLocked(proc[p].userId)
  /\ proc' = [proc EXCEPT ![p].pc = "enable_delete"]
  /\ UNCHANGED <<now, ticks, sessionVars, mfaVars, resetVars>>

\* backupCode.deleteMany({where: {userId}})
EnableDelete(p) ==
  /\ At(p, "enable_delete")
  /\ proc' = [proc EXCEPT ![p].pc = "enable_commit",
                          ![p].dels = DeleteMany(backupCodes, proc[p].userId),
                          ![p].after = RowHolders(DeleteMany(backupCodes, proc[p].userId))]
  /\ UNCHANGED <<now, ticks, sessionVars, mfaVars, resetVars>>

\* backupCode.createMany, and the transaction commits
EnableCommit(p) ==
  /\ At(p, "enable_commit")
  /\ ~RowWait(p)
  /\ nextBatch <= MaxBatches
  /\ mfa' = [mfa EXCEPT ![proc[p].userId].enabled = TRUE]
  /\ backupCodes' = CommitRows(backupCodes, proc[p].dels,
                               BatchRows(proc[p].userId, nextBatch))
  /\ nextBatch' = nextBatch + 1
  /\ proc' = [proc EXCEPT ![p] = MfaDone([proc[p] EXCEPT !.batch = nextBatch], "ok")]
  /\ UNCHANGED <<now, ticks, sessionVars, nextSeed, mfaHist, resetVars>>

\* ---------------------------------------------- TwoFactorService.verifyCode
\* a caller that goes on whatever verifyCode answered
AfterVerifyUnchecked(rec, valid) ==
  [rec EXCEPT !.valid = valid,
              !.pc = IF rec.op = "challenge" THEN "challenge_issue"
                     ELSE IF rec.op = "disable" THEN "disable_update"
                     ELSE "regen_delete"]

\* what the caller of verifyCode does with its answer
AfterVerify(rec, valid) ==
  IF rec.op = "challenge"
    THEN IF valid THEN [rec EXCEPT !.pc = "challenge_issue", !.valid = TRUE]
                  ELSE MfaDone(rec, "InvalidCode")
  ELSE IF ~valid THEN MfaDone(rec, "InvalidCode")
  ELSE [rec EXCEPT !.valid = TRUE,
                   !.pc = IF rec.op = "disable" THEN "disable_update" ELSE "regen_delete"]

\* the submitted code has been answered
Tried(rec) ==
  IF rec.code.kind = "backup"
    THEN [mfaHist EXCEPT !.tried = @ \cup {<<rec.userId, rec.code.raw>>}]
    ELSE mfaHist

\* user.findUnique; not enabled or no seed: false; a valid TOTP code: true
VerifyFind(p) ==
  /\ At(p, "verify_find")
  /\ LET rec  == proc[p]
         user == mfa[rec.userId]
     IN IF ~user.enabled \/ user.secret = NoSecret
          THEN /\ proc' = [proc EXCEPT ![p] = AfterVerify(rec, FALSE)]
               /\ mfaHist' = Tried(rec)
        ELSE IF VerifyStored(rec.code, user.secret)
          THEN /\ proc' = [proc EXCEPT ![p] = AfterVerify(rec, TRUE)]
               /\ mfaHist' = Tried(rec)
          ELSE /\ proc' = [proc EXCEPT ![p] = [rec EXCEPT !.pc = "consume_find"]]
               /\ UNCHANGED mfaHist
  /\ UNCHANGED <<now, ticks, sessionVars, mfa, backupCodes, nextSeed, nextBatch, resetVars>>

\* ---------------------------------------- TwoFactorService.consumeBackupCode
\* findFirst without the usedAt: null condition
FindIgnoringUse(userId, inputCode) ==
  {r \in backupCodes :
     /\ r.userId = userId
     /\ r.codeHash = HashBackupCode(userId, NormaliseCode(inputCode))}

\* backupCode.findFirst({where: {userId, codeHash: hash, usedAt: null}})
FindUnused(userId, inputCode) ==
  {r \in backupCodes :
     /\ r.userId = userId
     /\ r.codeHash = HashBackupCode(userId, NormaliseCode(inputCode))
     /\ r.usedAt = NULL}

ConsumeFind(p) ==
  /\ At(p, "consume_find")
  /\ LET rec == proc[p]
         hit == FindUnused(rec.userId, rec.code)
     IN IF hit = {}
          THEN /\ proc' = [proc EXCEPT ![p] = AfterVerify(rec, FALSE)]
               /\ mfaHist' = Tried(rec)
          ELSE /\ proc' = [proc EXCEPT ![p] =
                    [rec EXCEPT !.pc = "consume_update",
                                !.record = (CHOOSE r \in hit : TRUE).id]]
               /\ UNCHANGED mfaHist
  /\ UNCHANGED <<now, ticks, sessionVars, mfa, backupCodes, nextSeed, nextBatch, resetVars>>

\* backupCode.update({where: {id: record.id}, data: {usedAt: new Date()}})
ConsumeUpdate(p) ==
  /\ At(p, "consume_update")
  /\ ~RowLocked(proc[p].record)
  /\ LET rec == proc[p]
     IN IF \E r \in backupCodes : r.id = rec.record
          THEN /\ backupCodes' = {IF r.id = rec.record THEN [r EXCEPT !.usedAt = now] ELSE r
                                    : r \in backupCodes}
               /\ proc' = [proc EXCEPT ![p] =
                    AfterVerify([rec EXCEPT !.viaBackup = TRUE], TRUE)]
               /\ mfaHist' = [Tried(rec) EXCEPT
                    !.uses[rec.record] = IF @ < 2 THEN @ + 1 ELSE @]
          ELSE /\ proc' = [proc EXCEPT ![p] = MfaDone(rec, "StoreError")]
               /\ mfaHist' = Tried(rec)
               /\ UNCHANGED backupCodes
  /\ UNCHANGED <<now, ticks, sessionVars, mfa, nextSeed, nextBatch, resetVars>>

\* --------------------------------- AuthController.completeMfaChallenge
\* the MfaTokenGuard let the bearer through as userId; verifyCode(userId, code)
ChallengeStart(p, u, code) ==
  /\ IsIdle(p)
  /\ proc' = [proc EXCEPT ![p] = MfaStart("challenge", u, code, "verify_find")]
  /\ UNCHANGED <<now, ticks, sessionVars, mfaVars, resetVars>>

\* authService.createSessionForUser(userId): a token pair for the user
ChallengeIssue(p) ==
  /\ At(p, "challenge_issue")
  /\ Issue(proc[p].userId)
  /\ proc' = [proc EXCEPT ![p] =
       IF IssueOk(proc[p].userId)
         THEN MfaDone([proc[p] EXCEPT !.created = TRUE], "ok")
         ELSE MfaDone(proc[p], "StoreError")]
  /\ UNCHANGED <<now, ticks, users, redis, hist, revoked, mfaVars, resetVars>>

\* ------------------------------------------------- TwoFactorService.disable
\* user.findUnique; not enabled: throw; else verifyCode(userId, code)
NeedsEnabled(p, op, u, code) ==
  /\ IsIdle(p)
  /\ proc' = [proc EXCEPT ![p] =
       IF ~mfa[u].enabled
         THEN MfaDone(MfaStart(op, u, code, ""), "NotEnabled")
         ELSE MfaStart(op, u, code, "verify_find")]
  /\ UNCHANGED <<now, ticks, sessionVars, mfaVars, resetVars>>

DisableFind(p, u, code) == NeedsEnabled(p, "disable", u, code)

\* $transaction([user.update({twoFactorEnabled: false, twoFactorSecret: null}),
\*               backupCode.deleteMany({where: {userId}})]): user.update takes the row
DisableUpdate(p) ==
  /\ At(p, "disable_update")
  /\ ~UserRowLocked(proc[p].userId)
  /\ proc' = [proc EXCEPT ![p].pc = "disable_delete"]
  /\ UNCHANGED <<now, ticks, sessionVars, mfaVars, resetVars>>

\* backupCode.deleteMany({where: {userId}})
DisableDelete(p) ==
  /\ At(p, "disable_delete")
  /\ proc' = [proc EXCEPT ![p].pc = "disable_commit",
                          ![p].dels = DeleteMany(backupCodes, proc[p].userId),
                          ![p].after = RowHolders(DeleteMany(backupCodes, proc[p].userId))]
  /\ UNCHANGED <<now, ticks, sessionVars, mfaVars, resetVars>>

\* the transaction commits
DisableCommit(p) ==
  /\ At(p, "disable_commit")
  /\ ~RowWait(p)
  /\ mfa' = [mfa EXCEPT ![proc[p].userId] = NoMfa]
  /\ backupCodes' = CommitRows(backupCodes, proc[p].dels, {})
  /\ proc' = [proc EXCEPT ![p] = MfaDone(proc[p], "ok")]
  /\ UNCHANGED <<now, ticks, sessionVars, nextSeed, nextBatch, mfaHist, resetVars>>

\* ----------------------------------- TwoFactorService.regenerateBackupCodes
RegenFind(p, u, code) == NeedsEnabled(p, "regen", u, code)

\* generateBackupCodes, then $transaction([deleteMany, createMany]): deleteMany
RegenDelete(p) ==
  /\ At(p, "regen_delete")
  /\ proc' = [proc EXCEPT ![p].pc = "regen_commit",
                          ![p].dels = DeleteMany(backupCodes, proc[p].userId),
                          ![p].after = RowHolders(DeleteMany(backupCodes, proc[p].userId))]
  /\ UNCHANGED <<now, ticks, sessionVars, mfaVars, resetVars>>

\* backupCode.createMany, and the transaction commits
RegenCommit(p) ==
  /\ At(p, "regen_commit")
  /\ ~RowWait(p)
  /\ nextBatch <= MaxBatches
  /\ backupCodes' = CommitRows(backupCodes, proc[p].dels,
                               BatchRows(proc[p].userId, nextBatch))
  /\ nextBatch' = nextBatch + 1
  /\ proc' = [proc EXCEPT ![p] = MfaDone([proc[p] EXCEPT !.batch = nextBatch], "ok")]
  /\ UNCHANGED <<now, ticks, sessionVars, mfa, nextSeed, mfaHist, resetVars>>

\* ============================================ single-use password-reset tokens
ResetsOf(u) == {r \in passwordResetTokens : r.userId = u}
\* what resetPassword accepts: unused and not past its expiry
Usable(r) == r.usedAt = NULL /\ ~(r.expiresAt < now)

\* ---------------------------------------------- AuthService.forgotPassword
\* the answer; made: a token was created and PASSWORD_RESET_REQUESTED emitted
ForgotDone(rec, made) ==
  [pc |-> "done", op |-> "forgot", email |-> rec.email, result |-> "generic",
   created |-> made, emitted |-> made, token |-> rec.token]

\* the check that lets an inactive or deleted user through
NoSuchUser(user) == ~user.exists

\* if (!user || !user.isActive || user.deletedAt) return {message}
NoResetFor(user) == ~user.exists \/ ~user.isActive \/ user.deletedAt # NULL

\* user.findUnique({where: {email}}); unknown or inactive: the generic answer
ForgotFind(p, e) ==
  /\ IsIdle(p)
  /\ proc' = [proc EXCEPT ![p] =
       IF NoResetFor(FindUser(e))
         THEN ForgotDone([email |-> e, token |-> 0], FALSE)
         ELSE [pc |-> "forgot_invalidate", op |-> "forgot", email |-> e, token |-> 0]]
  /\ UNCHANGED <<now, ticks, sessionVars, mfaVars, resetVars>>

\* passwordResetToken.updateMany({where: {userId, usedAt: null}, data: {usedAt}})
ForgotInvalidate(p) ==
  /\ At(p, "forgot_invalidate")
  /\ passwordResetTokens' =
       {IF r.userId = proc[p].email /\ r.usedAt = NULL
          THEN [r EXCEPT !.usedAt = now] ELSE r : r \in passwordResetTokens}
  /\ proc' = [proc EXCEPT ![p] = [proc[p] EXCEPT !.pc = "forgot_create"]]
  /\ UNCHANGED <<now, ticks, sessionVars, mfaVars, nextResetId>>

\* randomBytes(32), passwordResetToken.create({data: {token, userId, expiresAt}})
ForgotCreate(p) ==
  /\ At(p, "forgot_create")
  /\ nextResetId <= MaxResets
  /\ passwordResetTokens' = passwordResetTokens \cup
       {[id |-> nextResetId, token |-> nextResetId, userId |-> proc[p].email,
         expiresAt |-> now + RESET_TTL, usedAt |-> NULL]}
  /\ nextResetId' = nextResetId + 1
  /\ proc' = [proc EXCEPT ![p] = ForgotDone([proc[p] EXCEPT !.token = nextResetId], TRUE)]
  /\ UNCHANGED <<now, ticks, sessionVars, mfaVars>>

\* ----------------------------------------------- AuthService.resetPassword
NoReset == [id |-> 0, token |-> 0, userId |-> "", expiresAt |-> NULL, usedAt |-> NULL]
\* passwordResetToken.findUnique({where: {token}})
FindReset(tok) ==
  IF \E r \in passwordResetTokens : r.token = tok
    THEN CHOOSE r \in passwordResetTokens : r.token = tok
    ELSE NoReset

ResetDone(rec, res) ==
  [pc |-> "done", op |-> "reset", token |-> rec.token, password |-> rec.password,
   result |-> res, row |-> rec.row]

\* the check without the usedAt test
RejectedUnlessExpired(row) == row.id = 0 \/ row.expiresAt < now

\* if (!resetToken || resetToken.usedAt || resetToken.expiresAt < new Date()) throw
Rejected(row) == row.id = 0 \/ row.usedAt # NULL \/ row.expiresAt < now

\* findUnique, then: missing, used or expired: throw
ResetFind(p, tok, pw) ==
  /\ IsIdle(p)
  /\ LET row == FindReset(tok)
         rec == [token |-> tok, password |-> pw, row |-> row]
     IN proc' = [proc EXCEPT ![p] =
          IF Rejected(row)
            THEN ResetDone(rec, "InvalidToken")
            ELSE [pc |-> "reset_commit", op |-> "reset", token |-> tok,
                  password |-> pw, row |-> row]]
  /\ UNCHANGED <<now, ticks, sessionVars, mfaVars, resetVars>>

\* $transaction([user.update password, passwordResetToken.update usedAt,
\*               refreshToken.updateMany revokedAt])
ResetCommit(p) ==
  /\ At(p, "reset_commit")
  /\ LET rec == proc[p]
         u   == rec.row.userId
     IN IF \E r \in passwordResetTokens : r.id = rec.row.id
          THEN /\ users' = [users EXCEPT ![u].password = Hash(rec.password)]
               /\ passwordResetTokens' =
                    {IF r.id = rec.row.id THEN [r EXCEPT !.usedAt = now] ELSE r
                       : r \in passwordResetTokens}
               /\ refreshTokens' =
                    {IF r.userId = u THEN [r EXCEPT !.revokedAt = now] ELSE r
                       : r \in refreshTokens}
               /\ revoked' = revoked \cup {r.token : r \in OwnedBy(u)}
               /\ proc' = [Overtake(p, u) EXCEPT ![p] = ResetDone(rec, "ok")]
          ELSE /\ proc' = [proc EXCEPT ![p] = ResetDone(rec, "StoreError")]
               /\ UNCHANGED <<users, passwordResetTokens, refreshTokens, revoked>>
  /\ UNCHANGED <<now, ticks, nextId, redis, hist, issued, mfaVars, nextResetId>>

\* ---------------------------------------------------------- specifications
\* the values a caller can present: every value ever issued, and a forged one
Presentable == issued \cup {Forged}

\* the lockout counter: logins on one email, with any password
LockoutEmails == {"u1"}

Login(p) ==
  \/ LoginLocked(p)
  \/ LoginFindUser(p)
  \/ LoginIncr(p)
  \/ LoginExpire(p)
  \/ LoginSetLock(p)
  \/ LoginDelAttempts(p)
  \/ LoginClear(p)
  \/ LoginIssue(p)

NextLockout ==
  \/ \E p \in Procs :
       \/ \E e \in LockoutEmails, pw \in Passwords : LoginCheckLock(p, e, pw)
       \/ Login(p)
       \/ Return(p)
  \/ TickSecond
  \/ TickLockout

SpecLockout == Init /\ [][NextLockout]_vars

\* the session/token manager, one request at a time: callers that know their
\* password (a login here never fails on its credentials)
Session(p) ==
  \/ \E e \in UserIds : FindUser(e).exists /\ LoginCheckLock(p, e, "pw1")
  \/ LoginFindUser(p)
  \/ LoginClear(p)
  \/ LoginIssue(p)
  \/ \E e \in UserIds : Register(p, e, "pw1")
  \/ \E u \in UserIds, tok \in Presentable : RefreshFind(p, u, tok)
  \/ RefreshRevokeAll(p)
  \/ RefreshRevoke(p)
  \/ RefreshIssue(p)
  \/ \E u \in UserIds, tok \in Presentable : Logout(p, u, tok)
  \/ \E u \in UserIds, cur \in Passwords : ChangePassword(p, u, cur, "pw1")
  \/ \E u \in UserIds, pw \in Passwords : DeleteMyAccount(p, u, pw)
  \/ Return(p)

NextSession ==
  \/ Session(1)
  \/ CleanupExpiredTokens
  \/ TickSecond
  \/ TickRefresh

SpecSession == Init /\ [][NextSession]_vars

\* rotation under concurrency: every request in flight logs in or refreshes
RotationUsers == {"u1"}

Rotation(p) ==
  \/ \E e \in RotationUsers : LoginCheckLock(p, e, "pw1")
  \/ LoginFindUser(p)
  \/ LoginClear(p)
  \/ LoginIssue(p)
  \/ \E u \in RotationUsers, tok \in issued : RefreshFind(p, u, tok)
  \/ RefreshRevokeAll(p)
  \/ RefreshRevoke(p)
  \/ RefreshIssue(p)
  \/ Return(p)

NextRotation ==
  \/ \E p \in Procs : Rotation(p)
  \/ TickSecond

SpecRotation == Init /\ [][NextRotation]_vars

\* a rotated token presented again: the client (request 1) logs in and rotates,
\* the value it rotated is then presented by request 2, with the cleanup job and
\* the clock running in between
NextReuse ==
  \/ IsIdle(2) /\ LoginCheckLock(1, "u1", "pw1")
  \/ LoginFindUser(1)
  \/ LoginClear(1)
  \/ LoginIssue(1)
  \/ At(1, "done") /\ proc[1].op = "login" /\ Return(1)
  \/ \E tok \in issued : IsIdle(2) /\ RefreshFind(1, "u1", tok)
  \/ \E tok \in issued :
       /\ At(1, "done") /\ proc[1].op = "refresh"
       /\ RefreshFind(2, "u1", tok)
  \/ \E p \in Procs : RefreshRevokeAll(p)
  \/ \E p \in Procs : RefreshRevoke(p)
  \/ \E p \in Procs : RefreshIssue(p)
  \/ Return(2)
  \/ CleanupExpiredTokens
  \/ TickSecond
  \/ TickRefresh

SpecReuse == Init /\ [][NextReuse]_vars

\* the refresh endpoint over the lifetime of a token: one client that logs in and
\* presents the tokens it was given, now or a lifetime later
NextExpiry ==
  \/ \E e \in UserIds : FindUser(e).exists /\ LoginCheckLock(1, e, "pw1")
  \/ LoginFindUser(1)
  \/ LoginClear(1)
  \/ LoginIssue(1)
  \/ \E tok \in issued : RefreshRequest(1, tok)
  \/ RefreshRevokeAll(1)
  \/ RefreshRevoke(1)
  \/ RefreshIssue(1)
  \/ Return(1)
  \/ TickSecond
  \/ TickRefresh

SpecExpiry == Init /\ [][NextExpiry]_vars

\* the MFA manager under concurrency, for one identity
MfaUsers == {"u1"}

\* the codes a caller can submit: what an authenticator shows for a seed handed
\* out so far (seed 0: a code of no seed), and backup codes handed out so far
TotpCodes      == {Totp(sd, now) : sd \in 0..(nextSeed - 1)}
BackupInput(n) == {Formatted(<<b, i>>) : b \in 1..(nextBatch - 1), i \in 1..n}
Codes          == TotpCodes \cup BackupInput(MaxTried)
RacedCodes     == TotpCodes \cup BackupInput(MaxRaced)

NextMfa ==
  \E p \in Procs :
    \/ \E u \in MfaUsers : SetupFind(p, u)
    \/ SetupUpdate(p)
    \/ \E u \in MfaUsers, code \in RacedCodes : EnableFind(p, u, code)
    \/ EnableUpdate(p)
    \/ EnableDelete(p)
    \/ nextBatch <= MaxCoded /\ EnableCommit(p)
    \/ \E u \in MfaUsers, code \in RacedCodes : ChallengeStart(p, u, code)
    \/ VerifyFind(p)
    \/ ConsumeFind(p)
    \/ ConsumeUpdate(p)
    \/ ChallengeIssue(p)
    \/ \E u \in MfaUsers, code \in RacedCodes : DisableFind(p, u, code)
    \/ DisableUpdate(p)
    \/ DisableDelete(p)
    \/ DisableCommit(p)
    \/ \E u \in MfaUsers, code \in RacedCodes : RegenFind(p, u, code)
    \/ RegenDelete(p)
    \/ nextBatch <= MaxCoded /\ RegenCommit(p)
    \/ Return(p)

SpecMfa == Init /\ [][NextMfa]_vars

\* the transactions of the MFA manager under concurrency, for one identity:
\* every request submits a TOTP code
NextBatches ==
  \E p \in Procs :
    \/ \E u \in MfaUsers : SetupFind(p, u)
    \/ SetupUpdate(p)
    \/ \E u \in MfaUsers, code \in TotpCodes : EnableFind(p, u, code)
    \/ EnableUpdate(p)
    \/ EnableDelete(p)
    \/ EnableCommit(p)
    \/ VerifyFind(p)
    \/ ConsumeFind(p)
    \/ \E u \in MfaUsers, code \in TotpCodes : DisableFind(p, u, code)
    \/ DisableUpdate(p)
    \/ DisableDelete(p)
    \/ DisableCommit(p)
    \/ \E u \in MfaUsers, code \in TotpCodes : RegenFind(p, u, code)
    \/ RegenDelete(p)
    \/ RegenCommit(p)
    \/ Return(p)

SpecBatches == Init /\ [][NextBatches]_vars

\* enrolment and login of one identity, one request at a time
NextEnrol ==
  \/ \E u \in MfaUsers : SetupFind(1, u)
  \/ SetupUpdate(1)
  \/ \E u \in MfaUsers, code \in Codes : EnableFind(1, u, code)
  \/ EnableUpdate(1)
  \/ EnableDelete(1)
  \/ nextBatch <= MaxCoded /\ EnableCommit(1)
  \/ \E u \in MfaUsers, code \in Codes : ChallengeStart(1, u, code)
  \/ VerifyFind(1)
  \/ ConsumeFind(1)
  \/ ConsumeUpdate(1)
  \/ ChallengeIssue(1)
  \/ \E u \in MfaUsers, code \in Codes : DisableFind(1, u, code)
  \/ DisableUpdate(1)
  \/ DisableDelete(1)
  \/ DisableCommit(1)
  \/ \E u \in MfaUsers, code \in Codes : RegenFind(1, u, code)
  \/ RegenDelete(1)
  \/ nextBatch <= MaxCoded /\ RegenCommit(1)
  \/ Return(1)
  \/ \E e \in MfaUsers : LoginCheckLock(1, e, "pw1")
  \/ LoginFindUser(1)
  \/ LoginClear(1)
  \/ LoginIssue(1)
  \/ TickSecond

SpecEnrol == Init /\ [][NextEnrol]_vars

\* password reset under concurrency
ResetInput == 0..MaxResets

TickReset == Quiescent /\ AdvanceTo(now + RESET_TTL + 1)

NextReset ==
  \/ \E p \in Procs :
       \/ \E e \in UserIds : ForgotFind(p, e)
       \/ ForgotInvalidate(p)
       \/ ForgotCreate(p)
       \/ \E tok \in ResetInput : ResetFind(p, tok, "pw2")
       \/ ResetCommit(p)
       \/ Return(p)
  \/ TickSecond
  \/ TickReset

SpecReset == Init /\ [][NextReset]_vars

\* password recovery, one request at a time, with logins that hold refresh
\* tokens and the cleanup job
NextRecover ==
  \/ \E pw \in Passwords : LoginCheckLock(1, "u1", pw)
  \/ Login(1)
  \/ \E e \in UserIds : ForgotFind(1, e)
  \/ ForgotInvalidate(1)
  \/ ForgotCreate(1)
  \/ \E tok \in ResetInput, pw \in Passwords : ResetFind(1, tok, pw)
  \/ ResetCommit(1)
  \/ Return(1)
  \/ CleanupExpiredTokens
  \/ TickSecond
  \/ TickReset

SpecRecover == Init /\ [][NextRecover]_vars

\* accounts that are removed or delete themselves, one request at a time
NextDeactivate ==
  \/ \E e \in UserIds : FindUser(e).exists /\ LoginCheckLock(1, e, "pw1")
  \/ LoginFindUser(1)
  \/ LoginClear(1)
  \/ LoginIssue(1)
  \/ \E e \in UserIds : Register(1, e, "pw1")
  \/ \E u \in UserIds, tok \in Presentable : RefreshFind(1, u, tok)
  \/ RefreshRevokeAll(1)
  \/ RefreshRevoke(1)
  \/ RefreshIssue(1)
  \/ \E id, requesterId \in UserIds : Remove(1, id, requesterId)
  \/ \E u \in UserIds, pw \in Passwords : DeleteMyAccount(1, u, pw)
  \/ Return(1)
  \/ TickSecond

SpecDeactivate == Init /\ [][NextDeactivate]_vars

\* password changes and resets while the same user logs in and refreshes
NextRevoke ==
  \/ \E p \in Procs :
       \/ LoginCheckLock(p, "u1", "pw1")
       \/ LoginFindUser(p)
       \/ LoginClear(p)
       \/ LoginIssue(p)
       \/ \E tok \in issued : RefreshFind(p, "u1", tok)
       \/ RefreshRevokeAll(p)
       \/ RefreshRevoke(p)
       \/ RefreshIssue(p)
       \/ ChangePassword(p, "u1", "pw1", "pw1")
       \/ ForgotFind(p, "u1")
       \/ ForgotInvalidate(p)
       \/ ForgotCreate(p)
       \/ \E tok \in ResetInput : ResetFind(p, tok, "pw1")
       \/ ResetCommit(p)
       \/ Return(p)
  \/ TickSecond

SpecRevoke == Init /\ [][NextRevoke]_vars

\* forgotPassword for registered, unregistered and deleted accounts, one call at a time
NextForgot ==
  \/ \E e \in UserIds : ForgotFind(1, e)
  \/ ForgotInvalidate(1)
  \/ ForgotCreate(1)
  \/ \E tok \in ResetInput, pw \in Passwords : ResetFind(1, tok, pw)
  \/ ResetCommit(1)
  \/ \E pw \in Passwords : DeleteMyAccount(1, "u1", pw)
  \/ Return(1)
  \/ TickSecond
  \/ TickReset

SpecForgot == Init /\ [][NextForgot]_vars

\* password changes between logins, one request at a time: callers log in with
\* the password that is current
NextPassword ==
  \/ \E pw \in Passwords :
       Compare(pw, FindUser("u1").password) /\ LoginCheckLock(1, "u1", pw)
  \/ LoginFindUser(1)
  \/ LoginClear(1)
  \/ LoginIssue(1)
  \/ \E u \in UserIds, cur \in Passwords, new \in Passwords : ChangePassword(1, u, cur, new)
  \/ Return(1)
  \/ TickSecond

SpecPassword == Init /\ [][NextPassword]_vars

\* seeds written, overwritten and read back
NextCipher ==
  \/ \E level \in {"cipher", "service"}, key \in KeyConfigs,
        text \in CipherTexts, iv \in IVs : EncryptCall(1, level, key, text, iv)
  \/ \E value \in StoredValues : AlterStored(1, value)
  \/ DecryptCall(1)
  \/ Return(1)

SpecCipher == Init /\ [][NextCipher]_vars

\* login of a registered and of an unregistered email, one request at a time
NextEnumeration ==
  \/ \E e \in UserIds, pw \in Passwords : LoginCheckLock(1, e, pw)
  \/ Login(1)
  \/ Return(1)
  \/ TickSecond
  \/ TickLockout

SpecEnumeration == Init /\ [][NextEnumeration]_vars

\* requests through the guards of the endpoints
NextGuards ==
  \/ \E token \in Bearers, endpoint \in Endpoints : Request(1, token, endpoint)
  \/ Guard(1)
  \/ Return(1)
  \/ TickSecond

SpecGuards == Init /\ [][NextGuards]_vars

\* ------------------------------------------------------------ lockout claims
IsLogin(p) == proc[p].pc # "idle" /\ proc[p].op = "login"
LoginReturned(p) == proc[p].pc = "done" /\ proc[p].op = "login"

Locked(e) == redis[LockKey(e)].present

\* C7: once 5 failed logins of an identity have been recorded and have returned,
\* with no successful login and no expiry in between, the lock flag is set; and a
\* login that finds the lock flag set returns AccountLocked and stores no token,
\* whatever the password.
C7_LockedAfterFiveFailures ==
  /\ \A e \in UserIds :
       (hist[e].fails >= LOCKOUT_THRESHOLD /\ ~\E q \in Procs : FailInFlight(q, e))
         => Locked(e)
  /\ \A p \in Procs :
       (LoginReturned(p) /\ proc[p].lockHeld)
         => (proc[p].result = "AccountLocked" /\ ~proc[p].created)

\* C8: a successful login leaves neither the counter nor the lock flag: the
\* counter never counts a failure older than the last successful login, and a lock
\* flag set by failures recorded after it takes 5 of them.
C8_SuccessResets ==
  \A e \in UserIds :
    /\ redis[AttemptsKey(e)].present
         => Min(redis[AttemptsKey(e)].val, LOCKOUT_THRESHOLD) <= hist[e].sinceOk
    /\ (Locked(e) /\ ~hist[e].staleLock) => hist[e].sinceOk >= LOCKOUT_THRESHOLD

C8_Witness ==
  \E e \in UserIds :
    /\ hist[e].cleared
    /\ hist[e].sinceOk = LOCKOUT_THRESHOLD - 1
    /\ redis[AttemptsKey(e)].present
    /\ redis[AttemptsKey(e)].val = LOCKOUT_THRESHOLD - 1
    /\ ~Locked(e)
    /\ \A q \in Procs : ~IsLogin(q) \/ LoginReturned(q)

\* C9: a login that finds the lock flag set goes no further than the lock check:
\* it never reads the user record (nor compares a password) and returns
\* AccountLocked.
C9_LockCheckedFirst ==
  \A p \in Procs :
    (IsLogin(p) /\ proc[p].lockHeld)
      => /\ ~proc[p].readUser
         /\ proc[p].pc \in {"login_locked", "done"}
         /\ proc[p].pc = "done" => proc[p].result = "AccountLocked"

C9_Witness ==
  \E p \in Procs :
    /\ LoginReturned(p) /\ proc[p].lockHeld /\ ~proc[p].readUser
    /\ proc[p].result = "AccountLocked"
    /\ users[proc[p].email].exists

\* C10: recording a failed login is atomic: the counter never exists without an
\* expiry, and never stands at 5 or more without the lock flag.
C10_AtomicRecordFailure ==
  \A e \in UserIds :
    redis[AttemptsKey(e)].present
      => /\ redis[AttemptsKey(e)].exp # NULL
         /\ redis[AttemptsKey(e)].val >= LOCKOUT_THRESHOLD => Locked(e)

\* ------------------------------------------------------------ session claims
RefreshReturned(p) == proc[p].pc = "done" /\ proc[p].op = "refresh"

\* the presented value had a row, and the row belonged to the caller
Presented(p) == proc[p].found /\ proc[p].owner = proc[p].userId

\* C1: a refresh that finds its token live returns a new pair and leaves the token
\* revoked; a refresh that finds its token already rotated fails with
\* ReplayDetected and leaves every token of the identity revoked.
C1_RotateOnceThenReplay ==
  \A p \in Procs :
    RefreshReturned(p) =>
      /\ proc[p].sawLive
           => (proc[p].result = "ok" /\ proc[p].created /\ proc[p].token \in revoked)
      /\ (Presented(p) /\ ~proc[p].sawLive)
           => /\ proc[p].result = "ReplayDetected"
              /\ \A r \in OwnedBy(proc[p].userId) : r.revokedAt # NULL

\* C2: of two refresh calls that both found the same token live, at most one
\* returns a token pair.
C2_OneWinner ==
  \A p, q \in Procs :
    (p # q /\ RefreshReturned(p) /\ RefreshReturned(q)
       /\ proc[p].token = proc[q].token /\ proc[p].sawLive /\ proc[q].sawLive)
      => ~(proc[p].result = "ok" /\ proc[q].result = "ok")

\* C3: a refresh that starts after the presented value was marked revoked never
\* returns a token pair.
C3_RevokedNeverAccepted ==
  \A p \in Procs :
    (RefreshReturned(p) /\ proc[p].wasRevoked) => proc[p].result # "ok"

\* C4: a refresh that found its token live has, when it returns, either revoked the
\* token and stored a replacement, or done neither.
C4_RotationAllOrNothing ==
  \A p \in Procs :
    (RefreshReturned(p) /\ proc[p].sawLive) => (proc[p].revokedOld <=> proc[p].created)

\* what a returned refresh records when the value had no row or another's row
C5_InvalidTokenState ==
  \A p \in Procs :
    (RefreshReturned(p) /\ ~Presented(p))
      => (proc[p].result = "InvalidToken" /\ ~proc[p].revokedOld /\ ~proc[p].created)

\* the step in which such a refresh answers
C5_InvalidTokenStep ==
  \A p \in Procs :
    (IsIdle(p) /\ proc'[p].pc = "done" /\ proc'[p].op = "refresh"
       /\ (proc'[p].result = "InvalidToken" \/ ~proc'[p].found
             \/ proc'[p].owner # proc'[p].userId))
      => (refreshTokens' = refreshTokens /\ nextId' = nextId /\ revoked' = revoked)

\* C5: a refresh whose value has no stored row, or a row of another identity,
\* fails with InvalidToken, and the step that answers so leaves the refresh-token
\* table as it was.
C5_InvalidTokenLeavesStore == []C5_InvalidTokenState /\ [][C5_InvalidTokenStep]_vars

C5_Witness ==
  \E p \in Procs :
    /\ RefreshReturned(p) /\ proc[p].found /\ proc[p].owner # proc[p].userId
    /\ proc[p].result = "InvalidToken"
    /\ \E r \in refreshTokens : r.token = proc[p].token /\ r.revokedAt = NULL

\* the where clause of logout's updateMany
Matches(r, u, tok) == r.userId = u /\ r.token = tok

\* the step of one logout call
C6_LogoutStep ==
  \A p \in Procs :
    (IsIdle(p) /\ proc'[p].pc = "done" /\ proc'[p].op = "logout")
      => /\ nextId' = nextId
         /\ {r.id : r \in refreshTokens'} = {r.id : r \in refreshTokens}
         /\ \A r \in refreshTokens :
              IF Matches(r, proc'[p].userId, proc'[p].token)
                THEN \E x \in refreshTokens' :
                       /\ x.id = r.id /\ x.revokedAt # NULL
                       /\ [x EXCEPT !.revokedAt = NULL] = [r EXCEPT !.revokedAt = NULL]
                ELSE r \in refreshTokens'

\* C6: logout(u, T) creates and deletes no row, marks revoked the rows of u with
\* value T, and changes no other row; so a second logout leaves T revoked and the
\* rest of the table as it was.
C6_LogoutIdempotent == [][C6_LogoutStep]_vars

C6_Witness ==
  \E p \in Procs :
    /\ proc[p].pc = "done" /\ proc[p].op = "logout" /\ proc[p].wasRevoked
    /\ \E r \in refreshTokens :
         Matches(r, proc[p].userId, proc[p].token) /\ r.revokedAt # NULL
    /\ \E r \in refreshTokens : r.userId # proc[p].userId /\ r.revokedAt = NULL

\* -------------------------------------------------------- enumeration claims
Unregistered(p)  == ~users[proc[p].email].exists
WrongPassword(p) ==
  /\ users[proc[p].email].exists
  /\ ~Compare(proc[p].password, users[proc[p].email].password)

\* a login that got past the lock check and past the credentials check with a failure
FailedCredentials(p) ==
  IsLogin(p) /\ proc[p].readUser /\ (Unregistered(p) \/ WrongPassword(p))

\* C11: a login with an unregistered email and a login with a registered email and
\* a wrong password are answered alike: both go on to record a failure and return
\* InvalidCredentials, and the step that records the failure raises the counter of
\* the presented email by exactly one (to 1 when there was none), whether or not
\* the email is registered.
C11_NoEnumeration ==
  /\ [](\A p \in Procs :
          FailedCredentials(p)
            => /\ proc[p].pc \in {"login_incr", "login_expire", "login_setlock",
                                  "login_del", "done"}
               /\ proc[p].pc = "done"
                    => (proc[p].result = "InvalidCredentials" /\ ~proc[p].created))
  /\ [][\A p \in Procs :
          (FailedCredentials(p) /\ proc[p].pc = "login_incr" /\ proc'[p].pc # "login_incr")
            => /\ redis'[AttemptsKey(proc[p].email)].present
               /\ redis'[AttemptsKey(proc[p].email)].val =
                    IF redis[AttemptsKey(proc[p].email)].present
                      THEN redis[AttemptsKey(proc[p].email)].val + 1
                      ELSE 1]_vars

\* both cases have happened: the unregistered email has just failed a second time,
\* after two failures of the registered one
C11_Witness ==
  /\ LoginReturned(1) /\ FailedCredentials(1) /\ Unregistered(1)
  /\ proc[1].result = "InvalidCredentials"
  /\ redis[AttemptsKey("u1")].present /\ redis[AttemptsKey("u1")].val = 2
  /\ redis[AttemptsKey("u2")].present /\ redis[AttemptsKey("u2")].val = 2

\* ------------------------------------------------------------------ MFA claims
\* DISABLED: no seed; PENDING: a seed stored, not confirmed; ENABLED: the flag set
MfaState(u) ==
  IF mfa[u].enabled THEN "ENABLED"
  ELSE IF mfa[u].secret # NoSecret THEN "PENDING" ELSE "DISABLED"

\* the step is the commit of a verifyAndEnable call for u
EnableStep(u) ==
  \E p \in Procs :
    /\ IsMfa(p, "enable") /\ proc[p].pc = "enable_commit" /\ proc[p].userId = u
    /\ proc'[p].pc = "done" /\ proc'[p].result = "ok"

\* the step is the commit of a disable call for u whose code was verified
DisableStep(u) ==
  \E p \in Procs :
    /\ IsMfa(p, "disable") /\ proc[p].pc = "disable_commit" /\ proc[p].userId = u
    /\ proc[p].valid
    /\ proc'[p].pc = "done" /\ proc'[p].result = "ok"

\* C12: every change of an identity's MFA state follows DISABLED -> PENDING ->
\* ENABLED -> DISABLED: the flag becomes true only by a verifyAndEnable commit, on
\* an identity holding a pending seed that the submitted code is valid for, and an
\* enabled identity leaves that state only by the commit of a verified disable.
C12_MfaStateMachine ==
  [][\A u \in UserIds :
       /\ (MfaState(u) = "DISABLED" /\ MfaState(u)' # "DISABLED")
            => MfaState(u)' = "PENDING"
       /\ (MfaState(u) = "PENDING" /\ MfaState(u)' # "PENDING")
            => MfaState(u)' = "ENABLED"
       /\ (MfaState(u) # "ENABLED" /\ MfaState(u)' = "ENABLED")
            => /\ MfaState(u) = "PENDING"
               /\ EnableStep(u)
               /\ \E p \in Procs :
                    /\ proc[p].pc = "enable_commit" /\ proc'[p].pc = "done"
                    /\ VerifyStored(proc[p].code, mfa[u].secret)
       /\ (MfaState(u) = "ENABLED" /\ MfaState(u)' # "ENABLED")
            => (MfaState(u)' = "DISABLED" /\ DisableStep(u))]_vars

\* C13: a login with the correct password for an identity whose MFA is enabled
\* returns only an MFA challenge: it issues no token pair and stores no refresh
\* token row.
C13_ChallengeOnly ==
  \A p \in Procs :
    (LoginReturned(p) /\ mfa[proc[p].email].enabled
       /\ Compare(proc[p].password, users[proc[p].email].password))
      => (proc[p].result = "MfaRequired" /\ ~proc[p].created)

\* --------------------------------------------------------------- guard claims
RequestReturned(p) == proc[p].pc = "done" /\ proc[p].op = "request"

\* C14: a token carrying type = mfa is never accepted as an access token: the
\* guard of a protected endpoint rejects it whatever else it carries, and an MFA
\* challenge token (signed with the access secret) is accepted by no guard but
\* the one of the MFA challenge endpoint.
C14_MfaTokenNotAccess ==
  \A p \in Procs :
    (RequestReturned(p) /\ proc[p].token.type = "mfa")
      => /\ proc[p].endpoint = "protected" => proc[p].result = "Unauthorized"
         /\ (proc[p].token.key = ACCESS_SECRET /\ proc[p].result = "ok")
              => proc[p].endpoint = "challenge"

\* an unexpired, well-signed token with sub and companyId, refused for its type
C14_Witness ==
  \E p \in Procs :
    /\ RequestReturned(p) /\ proc[p].endpoint = "protected"
    /\ proc[p].token.type = "mfa" /\ JwtVerify(proc[p].token, ACCESS_SECRET)
    /\ proc[p].token.sub # "" /\ proc[p].token.companyId # ""
    /\ proc[p].result = "Unauthorized"

\* a row of u's current batch carries the hash of the code
Stored(u, code) ==
  \E r \in CodesOf(u) : r.codeHash = HashBackupCode(u, NormaliseCode(code))

\* a returned MFA challenge that submitted a backup code of u's current batch
VerifiedBackup(p) ==
  /\ MfaReturned(p, "challenge") /\ proc[p].code.kind = "backup"
  /\ mfa[proc[p].userId].enabled /\ Stored(proc[p].userId, proc[p].code)

\* C15: a successful verifyAndEnable returns exactly 10 backup codes, the ones
\* whose hashes are stored; and a verify of a code of the stored batch answers
\* true on the code's first submission and false on every later one.
C15_BackupCodesOnce ==
  \A p \in Procs :
    /\ (MfaReturned(p, "enable") /\ proc[p].result = "ok")
         => /\ Cardinality(Plain(proc[p].batch)) = BACKUP_CODE_COUNT
            /\ {r.codeHash : r \in CodesOf(proc[p].userId)}
                 = Hashes(proc[p].userId, proc[p].batch)
            /\ Cardinality(CodesOf(proc[p].userId)) = BACKUP_CODE_COUNT
            /\ \A r \in CodesOf(proc[p].userId) : r.usedAt = NULL
    /\ VerifiedBackup(p) => (proc[p].valid <=> proc[p].firstTry)

\* a code that verified once has been submitted again and refused
C15_Witness ==
  \E p \in Procs :
    /\ VerifiedBackup(p) /\ ~proc[p].firstTry /\ ~proc[p].valid
    /\ mfaHist.uses[proc[p].code.raw] = 1
    /\ proc[p].code.raw[2] = MaxTried

\* C16: a backup code never authenticates more than once: of the verify calls
\* that submit the same unused backup code, however interleaved, at most one
\* answers true.
C16_OneConsumer ==
  \A c \in RawCodes : mfaHist.uses[c] <= 1

\* a disable call for u takes a step
DisableActs(p) == IsMfa(p, "disable") /\ proc'[p] # proc[p]

\* C17: disable takes effect only when its code was verified: its commit leaves
\* the flag false, the seed null and no backup code row of the identity, and a
\* disable that fails (not enabled, or invalid code) returns leaving the flag, the
\* seed and the rows as they were.
C17_DisableAllOrNothing ==
  /\ [](\A p \in Procs :
          MfaReturned(p, "disable")
            => (proc[p].result = "ok" <=> proc[p].valid))
  /\ [][\A p \in Procs :
          /\ (DisableActs(p) /\ proc'[p].pc = "done" /\ proc'[p].result = "ok")
               => /\ proc[p].valid
                  /\ ~mfa'[proc[p].userId].enabled
                  /\ mfa'[proc[p].userId].secret = NoSecret
                  /\ {r \in backupCodes' : r.userId = proc[p].userId} = {}
          /\ (DisableActs(p) /\ proc'[p].pc = "done" /\ proc'[p].result # "ok")
               => (mfa' = mfa /\ backupCodes' = backupCodes)
          /\ (proc[p].pc = "idle" /\ proc'[p].pc = "done" /\ proc'[p].op = "disable")
               => (proc'[p].result # "ok" /\ mfa' = mfa /\ backupCodes' = backupCodes)]_vars

\* a verified disable has cleared an enrolment that had rows
C17_Witness ==
  \E p \in Procs :
    /\ MfaReturned(p, "disable") /\ proc[p].result = "ok"
    /\ mfa[proc[p].userId] = NoMfa /\ CodesOf(proc[p].userId) = {}
    /\ nextBatch > 1

\* the step is the commit of p's verifyAndEnable or regenerateBackupCodes
BatchCommitted(p) ==
  /\ proc[p].pc \in {"enable_commit", "regen_commit"}
  /\ proc'[p].pc = "done" /\ proc'[p].result = "ok"

\* C18: a successful verifyAndEnable or regenerateBackupCodes leaves exactly its
\* 10 new codes stored for the identity; the rows of an identity are never a mix
\* of batches, and only a code of the newest batch ever verifies.
C18_BatchReplaced ==
  /\ [](\A u \in MfaUsers :
          \/ CodesOf(u) = {}
          \/ {r.id : r \in CodesOf(u)} = {<<nextBatch - 1, i>> : i \in Indexes})
  /\ [][\A p \in Procs :
          /\ BatchCommitted(p)
               => /\ {r \in backupCodes' : r.userId = proc[p].userId}
                       = BatchRows(proc[p].userId, proc'[p].batch)
                  /\ Cardinality(BatchRows(proc[p].userId, proc'[p].batch))
                       = BACKUP_CODE_COUNT
          /\ (proc[p].pc = "consume_update" /\ proc'[p].viaBackup)
               => proc[p].code.raw[1] = nextBatch - 1]_vars

\* a regeneration has replaced a batch of which a code had been used
C18_Witness ==
  \E p \in Procs :
    /\ MfaReturned(p, "regen") /\ proc[p].result = "ok" /\ proc[p].batch = 2
    /\ CodesOf(proc[p].userId) = BatchRows(proc[p].userId, 2)
    /\ \E i \in Indexes : mfaHist.uses[<<1, i>>] > 0

\* C19: regenerateBackupCodes is authorised by a TOTP code only: a call that
\* presents a backup code is rejected, consumes no code and replaces no batch.
C19_RegenNeedsTotp ==
  \A p \in Procs :
    (MfaReturned(p, "regen") /\ proc[p].code.kind = "backup")
      => (proc[p].result # "ok" /\ ~proc[p].viaBackup)

\* ------------------------------------------------------ password-reset claims
UsableResets(u) == {r \in ResetsOf(u) : Usable(r)}

\* C20: an identity has at most one usable (unused, unexpired) password-reset
\* token, and it is the one the most recent forgotPassword created.
C20_OneUsableReset ==
  \A u \in UserIds :
    /\ Cardinality(UsableResets(u)) <= 1
    /\ \A r \in UsableResets(u) : \A s \in ResetsOf(u) : s.id <= r.id

\* p's resetPassword call makes its first step
ResetStarts(p) == proc[p].pc = "idle" /\ proc'[p].pc # "idle" /\ proc'[p].op = "reset"

\* C21: a resetPassword that presents a usable token succeeds: its commit sets the
\* new password, marks the token used and leaves every refresh token of the
\* identity revoked, all in one step; a resetPassword that presents a token
\* already used (or unknown, or expired) fails with InvalidToken and changes
\* neither a password nor any token.
C21_ResetOnce ==
  [][\A p \in Procs :
       /\ ResetStarts(p)
            => IF FindReset(proc'[p].token).id # 0 /\ Usable(FindReset(proc'[p].token))
                 THEN proc'[p].pc = "reset_commit"
                 ELSE /\ proc'[p].pc = "done" /\ proc'[p].result = "InvalidToken"
                      /\ users' = users
                      /\ passwordResetTokens' = passwordResetTokens
                      /\ refreshTokens' = refreshTokens
       /\ (proc[p].pc = "reset_commit" /\ proc'[p].pc = "done")
            => /\ proc'[p].result = "ok"
               /\ users'[proc[p].row.userId].password = Hash(proc[p].password)
               /\ \E r \in passwordResetTokens' :
                    r.id = proc[p].row.id /\ r.usedAt # NULL
               /\ \A r \in refreshTokens' :
                    r.userId = proc[p].row.userId => r.revokedAt # NULL
               /\ {r.id : r \in refreshTokens'} = {r.id : r \in refreshTokens}]_vars

\* the only token ever created was used to set pw2; presenting it again with pw1
\* has failed, the password is still pw2 and the identity's session is revoked
C21_Witness ==
  \E p \in Procs :
    /\ proc[p].pc = "done" /\ proc[p].op = "reset"
    /\ proc[p].result = "InvalidToken" /\ proc[p].token = 1 /\ proc[p].password = "pw1"
    /\ nextResetId = 2
    /\ \E r \in passwordResetTokens : r.token = 1 /\ r.usedAt # NULL
    /\ users["u1"].password = Hash("pw2")
    /\ \E r \in OwnedBy("u1") : r.revokedAt # NULL

ResetReturned(p) == proc[p].pc = "done" /\ proc[p].op = "reset"

\* C22: a single-use token is accepted at most once: of the resetPassword calls
\* that present the same token, however interleaved, at most one succeeds.
C22_AcceptedOnce ==
  \A p, q \in Procs :
    (p # q /\ ResetReturned(p) /\ ResetReturned(q) /\ proc[p].token = proc[q].token)
      => ~(proc[p].result = "ok" /\ proc[q].result = "ok")

ForgotReturned(p) == proc[p].pc = "done" /\ proc[p].op = "forgot"

\* the email is not registered, or its account is inactive or deleted
Ineligible(e) == ~users[e].exists \/ ~users[e].isActive \/ users[e].deletedAt # NULL

\* C23: forgotPassword answers every email with the same generic message; for an
\* unregistered, inactive or deleted email it creates no reset token, emits no
\* event, and its step leaves every reset token as it was.
C23_ForgotGeneric ==
  /\ [](\A p \in Procs :
          ForgotReturned(p)
            => /\ proc[p].result = "generic"
               /\ Ineligible(proc[p].email)
                    => (~proc[p].created /\ ~proc[p].emitted))
  /\ [][\A p \in Procs :
          (proc[p].pc = "idle" /\ proc'[p].pc # "idle" /\ proc'[p].op = "forgot"
             /\ Ineligible(proc'[p].email))
            => (proc'[p].pc = "done" /\ passwordResetTokens' = passwordResetTokens)]_vars

\* a deleted account that still has a usable token has been answered
C23_Witness ==
  \E p \in Procs :
    /\ ForgotReturned(p) /\ proc[p].email = "u1" /\ proc[p].result = "generic"
    /\ users["u1"].deletedAt # NULL /\ ~proc[p].created
    /\ UsableResets("u1") # {}

\* ------------------------------------------------------------ password claims
\* p's changePassword call runs
ChangeStep(p) ==
  proc[p].pc = "idle" /\ proc'[p].pc = "done" /\ proc'[p].op = "changePassword"

\* C24: changePassword with the correct current password sets the new password
\* and leaves every refresh token of the identity revoked, in one step; with a
\* wrong current password (or for no such user) it fails and leaves the passwords
\* and the refresh tokens unchanged.
C24_ChangePassword ==
  [][\A p \in Procs :
       ChangeStep(p)
         => IF /\ users[proc'[p].userId].exists
               /\ users[proc'[p].userId].deletedAt = NULL
               /\ Compare(proc'[p].current, users[proc'[p].userId].password)
              THEN /\ proc'[p].result = "ok"
                   /\ users' = [users EXCEPT
                        ![proc'[p].userId].password = Hash(proc'[p].new)]
                   /\ \A r \in refreshTokens' :
                        r.userId = proc'[p].userId => r.revokedAt # NULL
                   /\ {r.id : r \in refreshTokens'} = {r.id : r \in refreshTokens}
              ELSE /\ proc'[p].result # "ok"
                   /\ users' = users
                   /\ refreshTokens' = refreshTokens]_vars

\* a wrong current password has been refused after a change that revoked a session
C24_Witness ==
  \E p \in Procs :
    /\ proc[p].pc = "done" /\ proc[p].op = "changePassword"
    /\ proc[p].userId = "u1" /\ proc[p].current = "pw1" /\ proc[p].new = "pw1"
    /\ proc[p].result = "Unauthorized"
    /\ users["u1"].password = Hash("pw2")
    /\ \E r \in OwnedBy("u1") : r.revokedAt # NULL
    /\ \E r \in OwnedBy("u1") : r.revokedAt = NULL

\* -------------------------------------------------------------- cipher claims
CipherReturned(p) == proc[p].pc = "done" /\ proc[p].op = "cipher"

\* C25: seed encryption round-trips: decrypt of what encrypt returned for a text
\* under a key returns the text, and decryptSecret of what encryptSecret returned
\* returns the seed, with a key configured and with none.
C25_RoundTrip ==
  \A p \in Procs :
    (CipherReturned(p) /\ ~proc[p].altered)
      => proc[p].result = Returned(proc[p].text)

\* a seed has gone through encryptSecret and decryptSecret under a configured key
C25_Witness ==
  \E p \in Procs :
    /\ CipherReturned(p) /\ ~proc[p].altered
    /\ proc[p].level = "service" /\ proc[p].key = "k1" /\ proc[p].text = Seed(2)
    /\ proc[p].stored # proc[p].text
    /\ proc[p].result = Returned(Seed(2))

\* C26: with a key configured, decryptSecret fails on every stored value that is
\* not an output of encrypt under that key: no altered or replaced value comes
\* back as a seed.
C26_FailsClosed ==
  \A p \in Procs :
    (/\ CipherReturned(p) /\ proc[p].level = "service"
     /\ proc[p].key # NoEncryptionKey
     /\ proc[p].stored \notin EncryptOutputs(proc[p].key))
      => proc[p].result.threw

\* request p has rotated its token: found it live, revoked it, stored a successor
Rotated(p) ==
  /\ RefreshReturned(p) /\ proc[p].result = "ok"
  /\ proc[p].sawLive /\ proc[p].revokedOld /\ proc[p].created

\* C27: a refresh presenting a token that an earlier refresh has rotated fails with
\* ReplayDetected and leaves every token of the identity revoked, whatever ran
\* between the rotation and the reuse, the cleanup job included.
C27_ReuseDetected ==
  \A p, q \in Procs :
    (/\ Rotated(p) /\ RefreshReturned(q) /\ p # q
     /\ proc[q].token = proc[p].token /\ proc[q].userId = proc[p].userId)
      => /\ proc[q].result = "ReplayDetected"
         /\ \A r \in OwnedBy(proc[q].userId) : r.revokedAt # NULL

\* the refresh endpoint was given a token with a row of the caller's that was not
\* revoked and not live: its stored expiry had passed
PresentedExpired(p) ==
  /\ RefreshReturned(p) /\ Presented(p)
  /\ ~proc[p].wasRevoked /\ ~proc[p].sawLive

\* C28: a refresh presenting a stored, never-revoked token whose stored expiry has
\* passed fails with ReplayDetected and leaves every refresh token of the identity
\* revoked.
C28_ExpiredIsReplay ==
  \A p \in Procs :
    PresentedExpired(p)
      => /\ proc[p].result = "ReplayDetected"
         /\ \A r \in OwnedBy(proc[p].userId) : r.revokedAt # NULL

\* the identity for which request p stores a refresh token in this step, if it does
Issues(p, u) ==
  \/ At(p, "login_issue") /\ proc'[p].pc = "done" /\ u = proc[p].email
  \/ At(p, "refresh_issue") /\ proc'[p].pc = "done" /\ u = proc[p].storedToken.userId
  \/ IsIdle(p) /\ proc'[p].pc = "done" /\ proc'[p].op = "register" /\ ~users[u].exists
       /\ users'[u].exists

\* C29: every issuance stores a refresh token value different from every value on
\* file, so none fails on a duplicate: not two issuances for one identity in the
\* same second, nor the refresh of a token in the second in which it was issued.
C29_UniqueValues ==
  [][\A p \in Procs, u \in UserIds :
       Issues(p, u) => \A r \in refreshTokens : r.token # SignRefresh(u, now)]_vars

\* the counter of e is on file with an expiry
Expiring(r, e) == r[AttemptsKey(e)].present /\ r[AttemptsKey(e)].exp # NULL

\* C30: the failure counter gets its expiry, 15 minutes ahead, only from the failure
\* that took it from absent to 1; while the counter stays on file no later failure
\* moves that expiry.
C30_ExpiryOnFirstFailure ==
  [][\A e \in UserIds :
       /\ (Expiring(redis, e) /\ redis'[AttemptsKey(e)].present)
            => redis'[AttemptsKey(e)].exp = redis[AttemptsKey(e)].exp
       /\ (~Expiring(redis, e) /\ Expiring(redis', e))
            => /\ redis'[AttemptsKey(e)].exp = now + LOCKOUT_TTL
               /\ \E p \in Procs :
                    /\ At(p, "login_expire") /\ proc[p].email = e
                    /\ proc[p].attempts = 1 /\ proc'[p].pc = "done"]_vars


\* ----------------------------------------------------- lockout claims, continued
\* request p takes a step from the point pc of a login
LoginStepFrom(p, pc) == At(p, pc) /\ proc'[p].pc # pc

\* C31: the failed login whose increment brings the counter to 5 goes on to set the
\* lock flag, with an expiry 15 minutes ahead of its own, and then deletes the
\* counter; a failed login whose increment leaves the counter below 5 returns
\* without writing the lock flag, and nothing else writes it.
C31_LockAtThreshold ==
  [][\A p \in Procs :
       /\ LoginStepFrom(p, "login_incr")
            => IF redis'[AttemptsKey(proc[p].email)].val >= LOCKOUT_THRESHOLD
                 THEN proc'[p].pc = "login_setlock"
                 ELSE /\ proc'[p].pc \in {"login_expire", "done"}
                      /\ redis'[LockKey(proc[p].email)] = redis[LockKey(proc[p].email)]
       /\ LoginStepFrom(p, "login_expire")
            => /\ proc'[p].pc = "done"
               /\ redis'[LockKey(proc[p].email)] = redis[LockKey(proc[p].email)]
       /\ LoginStepFrom(p, "login_setlock")
            => /\ proc'[p].pc = "login_del"
               /\ redis'[LockKey(proc[p].email)].present
               /\ redis'[LockKey(proc[p].email)].exp = now + LOCKOUT_TTL
       /\ LoginStepFrom(p, "login_del")
            => /\ proc'[p].pc = "done"
               /\ ~redis'[AttemptsKey(proc[p].email)].present
               /\ redis'[LockKey(proc[p].email)] = redis[LockKey(proc[p].email)]]_vars

\* the fifth failure has returned: the flag is set for 15 minutes, the counter gone
C31_Witness ==
  \E p \in Procs :
    /\ LoginReturned(p) /\ proc[p].result = "InvalidCredentials"
    /\ hist[proc[p].email].sinceOk = LOCKOUT_THRESHOLD
    /\ redis[LockKey(proc[p].email)].present
    /\ redis[LockKey(proc[p].email)].exp = now + LOCKOUT_TTL
    /\ ~redis[AttemptsKey(proc[p].email)].present


\* ------------------------------------------------- enrolment claims, continued
\* request p of operation op takes its last step from pc and answers ok
MfaCommits(p, op, pc) ==
  /\ At(p, pc) /\ proc[p].op = op
  /\ proc'[p].pc = "done" /\ proc'[p].result = "ok"

\* C32: generateSetup stores a seed that was never stored before in place of the
\* one on file and leaves the enabled flag false; a verifyAndEnable that enables
\* MFA was given a code of the seed on file, never one of a seed overwritten since.
C32_NewestSeedOnly ==
  [][\A p \in Procs :
       /\ (MfaCommits(p, "setup", "setup_update") /\ ~mfa[proc[p].userId].enabled)
            => /\ mfa'[proc[p].userId].secret # mfa[proc[p].userId].secret
               /\ DecryptSecret(ENCRYPTION_KEY, mfa'[proc[p].userId].secret)
                    = Returned(Seed(nextSeed))
               /\ ~mfa'[proc[p].userId].enabled
       /\ MfaCommits(p, "enable", "enable_commit")
            => DecryptSecret(ENCRYPTION_KEY, mfa[proc[p].userId].secret)
                 = Returned(Seed(proc[p].code.seed))]_vars


\* a verifyAndEnable call of p has failed with res
EnableFailed(p, res) ==
  IsIdle(p) /\ proc'[p].pc = "done" /\ proc'[p].op = "enable" /\ proc'[p].result = res

\* C33: verifyAndEnable fails with NotPending when no seed is stored or MFA is
\* already enabled, with InvalidCode when the code does not verify against the
\* stored seed, and a failing call changes neither flag, seed nor backup codes.
C33_EnableFailures ==
  [][\A p \in Procs :
       (IsIdle(p) /\ proc'[p].pc # "idle" /\ proc'[p].op = "enable")
         => LET u == proc'[p].userId
                code == proc'[p].code
                seed == DecryptSecret(ENCRYPTION_KEY, mfa[u].secret)
            IN /\ (mfa[u].secret = NoSecret \/ mfa[u].enabled) => EnableFailed(p, "NotPending")
               /\ (mfa[u].secret # NoSecret /\ ~mfa[u].enabled
                     /\ (code.kind # "totp" \/ seed.threw \/ seed.value # Seed(code.seed)
                           \/ code.step # now \div TOTP_STEP))
                    => EnableFailed(p, "InvalidCode")
               /\ proc'[p].pc = "done" => UNCHANGED <<mfa, backupCodes>>]_vars


\* C33 as the code has it: verifyAndEnable fails with NotPending when no seed is
\* stored, with AlreadyEnabled (the error of generateSetup) when a seed is stored
\* and MFA is enabled, with InvalidCode when the code does not verify against the
\* stored seed, and a failing call changes neither flag, seed nor backup codes.
C33_EnableFailuresNamed ==
  [][\A p \in Procs :
       (IsIdle(p) /\ proc'[p].pc # "idle" /\ proc'[p].op = "enable")
         => LET u == proc'[p].userId
                code == proc'[p].code
                seed == DecryptSecret(ENCRYPTION_KEY, mfa[u].secret)
            IN /\ mfa[u].secret = NoSecret => EnableFailed(p, "NotPending")
               /\ (mfa[u].secret # NoSecret /\ mfa[u].enabled)
                    => EnableFailed(p, "AlreadyEnabled")
               /\ (mfa[u].secret # NoSecret /\ ~mfa[u].enabled
                     /\ (code.kind # "totp" \/ seed.threw \/ seed.value # Seed(code.seed)
                           \/ code.step # now \div TOTP_STEP))
                    => EnableFailed(p, "InvalidCode")
               /\ proc'[p].pc = "done" => UNCHANGED <<mfa, backupCodes>>]_vars

\* a code of an overwritten seed has been refused, the newer seed still pending
C33_Witness ==
  \E p \in Procs :
    /\ MfaReturned(p, "enable") /\ proc[p].result = "InvalidCode"
    /\ proc[p].code.kind = "totp" /\ proc[p].code.seed = 1
    /\ ~mfa[proc[p].userId].enabled
    /\ DecryptSecret(ENCRYPTION_KEY, mfa[proc[p].userId].secret) = Returned(Seed(2))


\* C34: an identity whose MFA-enabled flag is set has a stored seed.
C34_EnabledHasSeed ==
  \A u \in UserIds : mfa[u].enabled => mfa[u].secret # NoSecret

\* C35: an identity whose MFA is not enabled has no backup-code rows.
C35_NoCodesUnlessEnabled ==
  \A u \in UserIds : ~mfa[u].enabled => CodesOf(u) = {}

\* C36: the backup-code rows of an identity number 0 or 10 and have pairwise
\* different hashes.
C36_WholeBatch ==
  \A u \in UserIds :
    /\ Cardinality(CodesOf(u)) \in {0, BACKUP_CODE_COUNT}
    /\ \A r, s \in CodesOf(u) : r.codeHash = s.codeHash => r = s

\* C37: while an identity stays MFA-enabled its stored seed does not change, so
\* verification is always made against the seed that was confirmed.
C37_SeedFixedWhileEnabled ==
  [][\A u \in UserIds :
       (mfa[u].enabled /\ mfa'[u].enabled) => mfa'[u].secret = mfa[u].secret]_vars

\* the step belongs to a login of e that found the lock flag set / not set
LockedAttemptStep(p) ==
  \/ IsLogin(p) /\ proc[p].lockHeld /\ proc'[p].pc # proc[p].pc
  \/ IsIdle(p) /\ proc'[p].pc # "idle" /\ proc'[p].op = "login" /\ proc'[p].lockHeld

AdmittedStep(p, e) ==
  IsLogin(p) /\ ~proc[p].lockHeld /\ proc[p].email = e /\ proc'[p].pc # proc[p].pc

\* C38: a login made while the identity is locked changes neither the counter nor
\* the lock flag; a lock flag on file keeps the expiry it was set with, 15 minutes
\* after the set, until that time comes, whatever logins are made meanwhile (only a
\* login admitted before the flag was set can still write it).
C38_LockedAttemptChangesNothing ==
  /\ [](\A e \in UserIds :
          Locked(e) => /\ redis[LockKey(e)].exp # NULL
                       /\ now < redis[LockKey(e)].exp
                       /\ redis[LockKey(e)].exp <= now + LOCKOUT_TTL)
  /\ [][/\ \A p \in Procs : LockedAttemptStep(p) => redis' = redis
        /\ \A e \in UserIds :
             Locked(e) =>
               \/ redis'[LockKey(e)] = redis[LockKey(e)]
               \/ now' >= redis[LockKey(e)].exp /\ ~redis'[LockKey(e)].present
               \/ \E p \in Procs : AdmittedStep(p, e)]_vars

\* a login was refused some time after the lock was set: the flag still has the
\* expiry of the set, and there is no counter
C38_Witness ==
  \E p \in Procs :
    /\ LoginReturned(p) /\ proc[p].lockHeld /\ proc[p].result = "AccountLocked"
    /\ Locked(proc[p].email)
    /\ redis[LockKey(proc[p].email)].exp < now + LOCKOUT_TTL
    /\ ~redis[AttemptsKey(proc[p].email)].present

\* the account is deactivated or soft-deleted
Deactivated(u) ==
  users[u].exists /\ (~users[u].isActive \/ users[u].deletedAt # NULL)

\* C39: from the moment an identity is deactivated or soft-deleted no refresh
\* token (so no token pair) is created for it, by a login or by a refresh.
C39_NoTokensOnceDeactivated ==
  [][\A u \in UserIds :
       Deactivated(u)
         => \A r \in refreshTokens' :
              r.userId = u => \E x \in refreshTokens : x.id = r.id]_vars

\* the step is the commit of p's changePassword or resetPassword for u
PasswordChanged(p, u) ==
  /\ proc[p].pc \in {"idle", "reset_commit"} /\ proc'[p].pc = "done"
  /\ proc'[p].op \in {"changePassword", "reset"} /\ proc'[p].result = "ok"
  /\ \/ proc'[p].op = "changePassword" /\ proc'[p].userId = u
     \/ proc'[p].op = "reset" /\ proc'[p].row.userId = u

LiveRow(r) == r.revokedAt = NULL /\ r.expiresAt >= now

\* C40: a completed changePassword or resetPassword leaves no refresh token of the
\* identity live, and a refresh that had read its token before the change
\* completed hands out no live token afterwards.
C40_NoSessionSurvivesPasswordChange ==
  /\ [][\A p \in Procs, u \in UserIds :
          PasswordChanged(p, u)
            => \A r \in refreshTokens' : r.userId = u => r.revokedAt # NULL]_vars
  /\ [](\A p \in Procs :
          (proc[p].pc = "done" /\ proc[p].op = "refresh" /\ proc[p].overtaken)
            => ~\E r \in refreshTokens : r.token = proc[p].newToken /\ LiveRow(r))

====
